---- MODULE Spec2Model ----
(***************************************************************************)
(* Routecast backend (backend/server.py): the route-weather pipeline       *)
(* get_route_weather and the rule-based functions it calls.                *)
(*                                                                         *)
(* Conventions of the model                                                *)
(*  - Optional[str] / Optional[record] values are sequences: <<>> is None  *)
(*    (or the empty string, which Python treats alike in `x or default`).  *)
(*  - Free text (conditions, event, wind_speed) is a sequence of           *)
(*    whitespace-separated words.  A word of a wind_speed text is a        *)
(*    sequence of one-character strings, because the code looks at its     *)
(*    characters; the words of the other texts are strings and the         *)
(*    substring tests of the code are looked up in Substrings.             *)
(*  - Scores are kept in hundredths of a point, so that the vehicle        *)
(*    multipliers (1.3, 0.85, ...) stay integers.                          *)
(*  - Routes run along one meridian; a coordinate is <<lat, lon>> with lat *)
(*    counted in miles from the route's reference point.                   *)
(***************************************************************************)
EXTENDS Integers, Sequences, FiniteSets, TLC

\* ------------------------------------------------------------------ bounds
MaxStops == 2
MaxScoreWaypoints == 2
MaxRoadAlerts == 2
MaxCoords == 3
MaxHazardWaypoints == 2
MaxAnalyzeWaypoints == 2
MaxPackingWaypoints == 2
MaxWindTokens == 3
MaxDepartureWaypoints == 2
MaxSteps == 2

\* ------------------------------------------------------------ basic values
None == <<>>
NoneInt == -9999

Abs(x) == IF x >= 0 THEN x ELSE -x
Min2(a, b) == IF a <= b THEN a ELSE b
Max2(a, b) == IF a >= b THEN a ELSE b
\* Python int(): truncation toward zero, here of a value in hundredths
IntOfHundredths(x) == IF x >= 0 THEN x \div 100 ELSE -((-x) \div 100)
\* xs[:n]
Take(xs, n) == SubSeq(xs, 1, Min2(Len(xs), n))
\* x in xs
InSeq(x, xs) == \E k \in DOMAIN xs : xs[k] = x

\* ------------------------------------------------------------- free text
\* The lower-case keywords (of those the code tests for) that occur as a
\* substring of each word of the vocabulary.
Substrings(word) ==
    CASE word = "Rain" -> {"rain"}
      [] word = "Showers" -> {"shower"}
      [] word = "Drizzle" -> {"drizzle"}
      [] word = "Thunderstorms" -> {"thunder", "storm"}
      [] word = "Snow" -> {"snow"}
      [] word = "Blizzard" -> {"blizzard"}
      [] word = "Flurries" -> {"flurr"}
      [] word = "Fog" -> {"fog"}
      [] word = "Mist" -> {"mist"}
      [] word = "Smoke" -> {"smoke"}
      [] word = "Heavy" -> {"heavy"}
      [] word = "Freezing" -> {"freezing"}
      [] word = "Sleet" -> {"sleet"}
      [] word = "Ice" -> {"ice"}
      [] word = "Service" -> {"ice"}
      [] word = "Flood" -> {"flood"}
      [] word = "Windy" -> {"wind"}
      [] word = "Wind" -> {"wind"}
      [] word = "Sunny" -> {"sun", "sunny"}
      [] word = "Clear" -> {"clear"}
      [] OTHER -> {}

\* kw in text.lower(), for a keyword without blanks
Contains(text, kw) == \E k \in DOMAIN text : kw \in Substrings(text[k])

\* ----------------------------------------------------------- wind speed
Digits == {"0", "1", "2", "3", "4", "5", "6", "7", "8", "9"}
DigitValue(c) ==
    CASE c = "0" -> 0 [] c = "1" -> 1 [] c = "2" -> 2 [] c = "3" -> 3
      [] c = "4" -> 4 [] c = "5" -> 5 [] c = "6" -> 6 [] c = "7" -> 7
      [] c = "8" -> 8 [] c = "9" -> 9

IsDigit(c) == c \in Digits

RECURSIVE DigitsToInt(_)
DigitsToInt(ds) ==
    IF ds = <<>> THEN 0
    ELSE 10 * DigitsToInt(SubSeq(ds, 1, Len(ds) - 1)) + DigitValue(ds[Len(ds)])

ZeroMph == << <<"0">>, <<"m", "p", "h">> >>

\* int(''.join(filter(str.isdigit, wind_str.split()[0]))), 0 on any exception
ParseWind(wind_speed) ==
    LET wind_str == IF wind_speed = None THEN ZeroMph ELSE wind_speed
        digits == SelectSeq(wind_str[1], IsDigit)
    IN  IF digits = <<>> THEN 0 ELSE DigitsToInt(digits)

\* ------------------------------------------------------------- vehicles
VEHICLE_TYPES ==
    [car |-> [wind_sensitivity |-> 100, ice_sensitivity |-> 100,
              visibility_sensitivity |-> 100, name |-> "Car/Sedan"],
     suv |-> [wind_sensitivity |-> 110, ice_sensitivity |-> 90,
              visibility_sensitivity |-> 100, name |-> "SUV"],
     truck |-> [wind_sensitivity |-> 130, ice_sensitivity |-> 85,
                visibility_sensitivity |-> 100, name |-> "Pickup Truck"],
     semi |-> [wind_sensitivity |-> 180, ice_sensitivity |-> 120,
               visibility_sensitivity |-> 130, name |-> "Semi Truck"],
     rv |-> [wind_sensitivity |-> 170, ice_sensitivity |-> 110,
             visibility_sensitivity |-> 120, name |-> "RV/Motorhome"],
     motorcycle |-> [wind_sensitivity |-> 200, ice_sensitivity |-> 250,
                     visibility_sensitivity |-> 150, name |-> "Motorcycle"],
     trailer |-> [wind_sensitivity |-> 160, ice_sensitivity |-> 130,
                  visibility_sensitivity |-> 110, name |-> "Vehicle + Trailer"]]

\* VEHICLE_TYPES.get(vehicle_type, VEHICLE_TYPES["car"])
VehicleProfile(vehicle_type) ==
    IF vehicle_type \in DOMAIN VEHICLE_TYPES
    THEN VEHICLE_TYPES[vehicle_type] ELSE VEHICLE_TYPES["car"]

SevereSeverities == {"Extreme", "Severe"}

\* ------------------------------------------------- calculate_safety_score
\* A WaypointWeather is [waypoint, weather, alerts]; weather is None or
\* <<[temperature, wind_speed, conditions]>>; an alert is
\* [severity, event, headline].
HasWeather(wp) == wp.weather # None
WeatherOf(wp) == wp.weather[1]

FreezingFactor == <<"Freezing temperatures - ice risk">>
HighWindsFactor == <<"High winds">>
SnowFactor == <<"Snow/winter conditions">>
RainFactor == <<"Rain/storm conditions">>
FogFactor == <<"Low visibility - fog">>
DefaultFactor == <<"Good driving conditions">>
DefaultRecommendation == "Safe travels! Normal driving conditions expected"
\* the source string opens with a warning sign, left off here
PostponeRecommendation == "Consider postponing trip if possible"
WindSensitiveVehicles == {"semi", "rv", "trailer", "motorcycle"}

\* f"Weather alert: {alert.event}"
AlertFactor(event) == <<"Weather alert:">> \o event

\* temp = wp.weather.temperature or 70
ScoreTemp(weather) ==
    IF weather.temperature = NoneInt \/ weather.temperature = 0
    THEN 70 ELSE weather.temperature

\* One factor with its recommendation, added unless the factor is there
AddFactor(st, factor, recommendation) ==
    IF InSeq(factor, st.factors) THEN st
    ELSE [st EXCEPT !.factors = Append(@, factor),
                    !.recommendations = Append(@, recommendation)]

\* Temperature risks
ScoreTemperature(st, weather, vehicle) ==
    LET temp == ScoreTemp(weather)
    IN  IF temp < 32
        THEN AddFactor([st EXCEPT !.base_score = @ - 15 * vehicle.ice_sensitivity],
                       FreezingFactor, "Reduce speed on bridges and overpasses")
        ELSE IF temp < 40
        THEN [st EXCEPT !.base_score = @ - 5 * vehicle.ice_sensitivity]
        ELSE st

\* Wind risks
ScoreWind(st, weather, vehicle, vehicle_type) ==
    LET wind_speed == ParseWind(weather.wind_speed)
    IN  IF wind_speed > 30
        THEN AddFactor([st EXCEPT !.base_score = @ - 20 * vehicle.wind_sensitivity],
                       HighWindsFactor,
                       IF vehicle_type \in WindSensitiveVehicles
                       THEN "Consider delaying trip - dangerous wind conditions for your vehicle"
                       ELSE "Maintain firm grip on steering wheel")
        ELSE IF wind_speed > 20
        THEN [st EXCEPT !.base_score = @ - 8 * vehicle.wind_sensitivity]
        ELSE st

\* Visibility/condition risks
ScoreConditions(st, weather, vehicle) ==
    LET conditions == weather.conditions
    IN  IF Contains(conditions, "snow") \/ Contains(conditions, "blizzard")
        THEN AddFactor([st EXCEPT !.base_score = @ - 25 * vehicle.visibility_sensitivity],
                       SnowFactor, "Use winter driving mode, increase following distance")
        ELSE IF Contains(conditions, "rain") \/ Contains(conditions, "storm")
        THEN AddFactor([st EXCEPT !.base_score = @ - 15 * vehicle.visibility_sensitivity],
                       RainFactor, "Turn on headlights, reduce speed")
        ELSE IF Contains(conditions, "fog")
        THEN AddFactor([st EXCEPT !.base_score = @ - 20 * vehicle.visibility_sensitivity],
                       FogFactor, "Use low beam headlights, avoid sudden stops")
        ELSE st

\* for alert in wp.alerts: the test is `alert.event not in factors`, the
\* factor appended is the prefixed text
RECURSIVE ScoreAlerts(_, _)
ScoreAlerts(st, alerts) ==
    IF alerts = <<>> THEN st
    ELSE LET alert == Head(alerts)
             st1 == IF alert.severity \in SevereSeverities
                    THEN LET st0 == [st EXCEPT !.base_score = @ - 2000]
                         IN  IF ~InSeq(alert.event, st0.factors)
                             THEN [st0 EXCEPT !.factors = Append(@, AlertFactor(alert.event))]
                             ELSE st0
                    ELSE st
         IN  ScoreAlerts(st1, Tail(alerts))

\* The body of `for wp in waypoints_weather`
ScoreWaypoint(st, wp, vehicle, vehicle_type) ==
    IF ~HasWeather(wp) THEN st
    ELSE LET w == WeatherOf(wp)
             s1 == ScoreTemperature(st, w, vehicle)
             s2 == ScoreWind(s1, w, vehicle, vehicle_type)
             s3 == ScoreConditions(s2, w, vehicle)
         IN  ScoreAlerts(s3, wp.alerts)

RECURSIVE ScoreLoop(_, _, _, _)
ScoreLoop(st, wps, vehicle, vehicle_type) ==
    IF wps = <<>> THEN st
    ELSE ScoreLoop(ScoreWaypoint(st, Head(wps), vehicle, vehicle_type),
                   Tail(wps), vehicle, vehicle_type)

\* Faulty variant: the clamp without its lower bound
ClampScore_NoFloor(base_score) == Min2(100, IntOfHundredths(base_score))

\* final_score = max(0, min(100, int(base_score)))
ClampScore(base_score) == Max2(0, Min2(100, IntOfHundredths(base_score)))

\* Faulty variant: the first threshold taken strictly
RiskLevel_Strict(final_score) ==
    IF final_score > 80 THEN "low"
    ELSE IF final_score >= 60 THEN "moderate"
    ELSE IF final_score >= 40 THEN "high"
    ELSE "extreme"

RiskLevel(final_score) ==
    IF final_score >= 80 THEN "low"
    ELSE IF final_score >= 60 THEN "moderate"
    ELSE IF final_score >= 40 THEN "high"
    ELSE "extreme"

\* recommendations.insert(0, ...) in the extreme branch
RiskRecommendations(risk_level, recommendations) ==
    IF risk_level = "extreme"
    THEN <<PostponeRecommendation>> \o recommendations
    ELSE recommendations

calculate_safety_score(waypoints_weather, vehicle_type) ==
    LET vehicle == VehicleProfile(vehicle_type)
        st == ScoreLoop([base_score |-> 10000, factors |-> <<>>,
                         recommendations |-> <<>>],
                        waypoints_weather, vehicle, vehicle_type)
        final_score == ClampScore(st.base_score)
        risk_level == RiskLevel(final_score)
        recs == RiskRecommendations(risk_level, st.recommendations)
        factors == IF st.factors = <<>> THEN <<DefaultFactor>> ELSE st.factors
        recommendations == IF recs = <<>> THEN <<DefaultRecommendation>> ELSE recs
    IN  [overall_score |-> final_score,
         risk_level |-> risk_level,
         vehicle_type |-> vehicle.name,
         factors |-> Take(factors, 5),
         recommendations |-> Take(recommendations, 4)]

\* ------------------------------------------------- geospatial utilities
\* Great-circle distance in miles.  All coordinates of the model lie on one
\* meridian with lat counted in miles, where the haversine formula gives
\* the difference of the latitudes.
haversine_distance(lat1, lon1, lat2, lon2) == Abs(lat2 - lat1)

\* int((distance_miles / avg_speed_mph) * 60), avg_speed_mph = 55
calculate_eta(distance_miles) == (distance_miles * 60) \div 55

\* A waypoint as extract_waypoints_from_route builds it; arrival_time is
\* counted in minutes from the departure time.
Waypoint(lat, lon, name, distance, eta) ==
    [lat |-> lat, lon |-> lon, name |-> name, distance_from_start |-> distance,
     eta_minutes |-> eta, arrival_time |-> eta]

\* for i in range(1, len(coords)): the walk along the decoded polyline
RECURSIVE ExtractLoop(_, _, _, _, _, _)
ExtractLoop(coords, i, waypoints, total_distance, last_waypoint_distance, interval_miles) ==
    IF i > Len(coords) THEN [waypoints |-> waypoints, total_distance |-> total_distance]
    ELSE LET total == total_distance
                        + haversine_distance(coords[i - 1][1], coords[i - 1][2],
                                             coords[i][1], coords[i][2])
         IN  IF total - last_waypoint_distance >= interval_miles
             THEN ExtractLoop(coords, i + 1,
                              Append(waypoints,
                                     Waypoint(coords[i][1], coords[i][2],
                                              <<"Mile", ToString(total)>>,
                                              total, calculate_eta(total))),
                              total, total, interval_miles)
             ELSE ExtractLoop(coords, i + 1, waypoints, total,
                              last_waypoint_distance, interval_miles)

\* Faulty variant: the end point is added only when the last waypoint is far
\* from it
extract_waypoints_from_route_FarOnly(coords, interval_miles) ==
    IF coords = <<>> THEN <<>>
    ELSE LET start == Waypoint(coords[1][1], coords[1][2], <<"Start">>, 0, 0)
             walked == ExtractLoop(coords, 2, <<start>>, 0, 0, interval_miles)
             waypoints == walked.waypoints
             last == waypoints[Len(waypoints)]
             end == coords[Len(coords)]
         IN  IF haversine_distance(last.lat, last.lon, end[1], end[2]) > 10
             THEN Append(waypoints,
                         Waypoint(end[1], end[2], <<"Destination">>,
                                  walked.total_distance,
                                  calculate_eta(walked.total_distance)))
             ELSE waypoints

\* coords is the decoded polyline, a sequence of <<lat, lon>>
extract_waypoints_from_route(coords, interval_miles) ==
    IF coords = <<>> THEN <<>>
    ELSE LET start == Waypoint(coords[1][1], coords[1][2], <<"Start">>, 0, 0)
             walked == ExtractLoop(coords, 2, <<start>>, 0, 0, interval_miles)
             waypoints == walked.waypoints
             last == waypoints[Len(waypoints)]
             end == coords[Len(coords)]
         IN  IF Len(waypoints) = 1
                \/ haversine_distance(last.lat, last.lon, end[1], end[2]) > 10
             THEN Append(waypoints,
                         Waypoint(end[1], end[2], <<"Destination">>,
                                  walked.total_distance,
                                  calculate_eta(walked.total_distance)))
             ELSE waypoints

\* ------------------------------------------------------- route provider
\* A distance is [meters, divisions]: the provider's metre value divided
\* `divisions` times by 1609.34.
MetersPerMileE2 == 160934
MetersPerMileSquaredE1 == 25899752

DivideByMetersPerMile(d) == [meters |-> d.meters, divisions |-> d.divisions + 1]

\* n / d rounded to the nearest integer (ties to even), n >= 0, d > 0
RoundDiv(n, d) ==
    LET q == n \div d
        r == n % d
    IN  IF 2 * r > d \/ (2 * r = d /\ q % 2 = 1) THEN q + 1 ELSE q

\* round(x, 1) of a distance, in tenths
RoundTenths(d) ==
    CASE d.divisions = 0 -> d.meters * 10
      [] d.divisions = 1 -> RoundDiv(d.meters * 1000, MetersPerMileE2)
      [] d.divisions = 2 -> RoundDiv(d.meters * 100, MetersPerMileSquaredE1)

\* coords_list of get_mapbox_route: origin, the via points, destination,
\* each as <<lon, lat>>
CoordsList(origin_coords, dest_coords, via) ==
    <<<<origin_coords.lon, origin_coords.lat>>>>
      \o [k \in DOMAIN via |-> <<via[k].lon, via[k].lat>>]
      \o <<<<dest_coords.lon, dest_coords.lat>>>>

\* What get_mapbox_route returns for the provider's reply: None, or
\* <<[geometry, duration, distance]>>.  reply.code is "error" when the
\* request raised, else the code of the JSON body; duration is kept in
\* seconds with the divisor applied by DurationMinutes.
get_mapbox_route(reply) ==
    IF reply.code = "error" THEN None
    ELSE IF reply.code = "NoRoute" THEN None
    ELSE IF reply.routes # <<>>
    THEN LET route == reply.routes[1]
         IN  <<[geometry |-> route.geometry,
                duration |-> route.duration,
                distance |-> DivideByMetersPerMile(
                               [meters |-> route.distance, divisions |-> 0])]>>
    ELSE None

\* int(route_data.get('duration', 0)) of route.duration / 60
DurationMinutes(duration_seconds) == duration_seconds \div 60

\* ------------------------------------------------ fetch_waypoint_weather
AnySevere(alerts) == \E k \in DOMAIN alerts : alerts[k].severity \in SevereSeverities

\* Faulty variant: the flag assigned from this waypoint's alerts alone
UpdateHasSevere_Assign(flag, alerts) == AnySevere(alerts)

\* if any(a.severity in severe_severities for a in alerts): has_severe = True
UpdateHasSevere(flag, alerts) == flag \/ AnySevere(alerts)

DisplayName(index, total, origin_name, dest_name, location_name) ==
    IF index = 0 THEN <<"Start - ", origin_name>>
    ELSE IF index = total - 1 THEN <<"End - ", dest_name>>
    ELSE IF location_name # "" THEN <<"Point ", ToString(index), " - ", location_name>>
    ELSE <<"Point ", ToString(index)>>

\* The WaypointWeather a task returns; index counts from 0
TaskResult(wp, index, total, origin_name, dest_name, location_name, weather, alerts) ==
    [waypoint |-> [wp EXCEPT !.name = DisplayName(index, total, origin_name,
                                                  dest_name, location_name)],
     weather |-> weather,
     alerts |-> alerts]

\* Faulty variant: the results in the reverse of the order of the tasks
gather_Reversed(results) ==
    [k \in DOMAIN results |-> results[Len(results) + 1 - k][1]]

\* Faulty variant: the results of the tasks whose weather fetch succeeded
gather_DropFailed(results) ==
    LET all == [k \in DOMAIN results |-> results[k][1]]
    IN  SelectSeq(all, HasWeather)

\* asyncio.gather(*tasks): the results in the order of the tasks
gather(results) == [k \in DOMAIN results |-> results[k][1]]

\* -------------------------------------------------- generate_ai_summary
AiUnconfigured == "AI summary unavailable - Google API key not configured."
AiUnable == "Unable to generate summary."
AiUnavailable == "Weather summary unavailable. Check individual waypoints for conditions."

\* reply: "unconfigured" (no GOOGLE_API_KEY), "error" (any exception),
\* "empty" (a response without text) or the text generated
generate_ai_summary(reply) ==
    IF reply = "unconfigured" THEN AiUnconfigured
    ELSE IF reply = "error" THEN AiUnavailable
    ELSE IF reply = "empty" THEN AiUnable
    ELSE reply

\* ------------------------------------------------------- find_rest_stops
\* range(sample_interval, total_points - sample_interval, sample_interval),
\* the 0-based indices into the decoded route
RECURSIVE PyRange(_, _, _)
PyRange(from, to, step) ==
    IF from >= to THEN <<>> ELSE <<from>> \o PyRange(from + step, to, step)

RestSampleIndices(route_coords) ==
    LET total_points == Len(route_coords)
        sample_interval == Max2(1, total_points \div 5)
    IN  PyRange(sample_interval, total_points - sample_interval, sample_interval)

\* waypoints_weather[-1].waypoint.distance_from_start or 100
LastDistance(waypoints_weather) ==
    LET d == waypoints_weather[Len(waypoints_weather)].waypoint.distance_from_start
    IN  IF d = 0 THEN 100 ELSE d

\* The first waypoint, in list order, that has weather and lies less than 30
\* miles from approx_distance = num / den; 0 when there is none
RECURSIVE FirstWeatherWithin30(_, _, _, _)
FirstWeatherWithin30(waypoints_weather, k, num, den) ==
    IF k > Len(waypoints_weather) THEN 0
    ELSE IF HasWeather(waypoints_weather[k])
            /\ Abs(waypoints_weather[k].waypoint.distance_from_start * den - num)
                 < 30 * den
    THEN k
    ELSE FirstWeatherWithin30(waypoints_weather, k + 1, num, den)

RestRecommendation(temp, weather_desc) ==
    IF temp # NoneInt /\ temp # 0 /\ temp > 85 THEN "Cool down and hydrate here"
    ELSE IF Contains(weather_desc, "rain") THEN "Wait out the rain here"
    ELSE IF Contains(weather_desc, "clear") \/ Contains(weather_desc, "sunny")
    THEN "Good weather - stretch your legs!"
    ELSE "Good rest stop option"

\* The RestStop built for the feature found near sample point i (0-based);
\* distance_miles is kept in tenths
RestStopAt(route_coords, i, waypoints_weather) ==
    LET total_points == Len(route_coords)
        num == i * LastDistance(waypoints_weather)
        k == FirstWeatherWithin30(waypoints_weather, 1, num, total_points)
        weather_desc == IF k = 0 THEN <<"Unknown">>
                        ELSE IF WeatherOf(waypoints_weather[k]).conditions = None
                        THEN <<"Clear">>
                        ELSE WeatherOf(waypoints_weather[k]).conditions
        temp == IF k = 0 THEN NoneInt ELSE WeatherOf(waypoints_weather[k]).temperature
    IN  [name |-> "Rest Stop",
         type |-> "rest_area",
         lat |-> route_coords[i + 1][1],
         lon |-> route_coords[i + 1][2],
         distance_miles |-> RoundDiv(num * 10, total_points),
         eta_minutes |-> (num * 60) \div (total_points * 55),
         weather_at_arrival |-> weather_desc,
         temperature_at_arrival |-> temp,
         recommendation |-> RestRecommendation(temp, weather_desc)]

\* One pass of the loop of find_rest_stops: reply is "error" (the lookup
\* raised), "none" (a status other than 200, or no feature) or "found"
RestStopStep(rest_stops, reply, route_coords, i, waypoints_weather) ==
    IF reply = "found"
    THEN Append(rest_stops, RestStopAt(route_coords, i, waypoints_weather))
    ELSE rest_stops

\* for i in range(...): the lookups in order, replies[j] the answer to the
\* j-th of them
RECURSIVE RestStopLoop(_, _, _, _, _)
RestStopLoop(rest_stops, todo, replies, route_coords, waypoints_weather) ==
    IF todo = <<>> THEN rest_stops
    ELSE RestStopLoop(RestStopStep(rest_stops, Head(replies), route_coords,
                                   Head(todo), waypoints_weather),
                      Tail(todo), Tail(replies), route_coords, waypoints_weather)

\* find_rest_stops for the decoded route and the answers of the place
\* provider; return rest_stops[:5]
find_rest_stops(route_coords, waypoints_weather, replies) ==
    Take(RestStopLoop(<<>>, RestSampleIndices(route_coords), replies, route_coords,
                      waypoints_weather), 5)

\* ------------------------------------------- get_turn_by_turn_directions
\* get_route_weather passes the dicts geocode_location returned; the function
\* reads origin_coords[1], which raises KeyError on a dict before any request
\* is sent, and the handler returns steps[:50] with steps still empty.
get_turn_by_turn_directions(origin_coords, dest_coords, waypoints_weather) == <<>>

\* The coordinate lists of the requests that call sends to the route
\* provider: coords_str is never built, client.get is never reached
DirectionsRequests(origin_coords, dest_coords) == <<>>

\* ------------------------------------------------------- road conditions
\* (the steps of get_turn_by_turn_directions follow derive_road_condition)
\* An f-string of a RoadCondition: its fixed text, the number formatted into
\* it (NoneInt when there is none) and the free text formatted into it
Describe(text, number, words) == [text |-> text, number |-> number, words |-> words]

\* RoadCondition(...); the icon is left off, recommendations are given
\* without their leading pictograph
RoadCondition(condition, severity, label, color, description, recommendation) ==
    [condition |-> condition, severity |-> severity, label |-> label,
     color |-> color, description |-> description,
     recommendation |-> recommendation]

\* temp = weather.temperature or 50
RoadTemp(weather) ==
    IF weather.temperature = NoneInt \/ weather.temperature = 0
    THEN 50 ELSE weather.temperature

IsSevere(alert) == alert.severity \in SevereSeverities

FloodedCondition(alert) ==
    RoadCondition("flooded", 4, "FLOODING", "#dc2626",
                  Describe("Flash flood warning - ", NoneInt, alert.headline),
                  "DO NOT DRIVE - Find alternate route immediately")

IcyAlertCondition(alert) ==
    RoadCondition("icy", 3, "ICY", "#ef4444",
                  Describe("Ice storm - ", NoneInt, alert.headline),
                  "DANGEROUS - Avoid travel if possible")

\* for alert in severe_alerts: the first alert that mentions flood, ice or
\* freezing decides; <<>> when the loop ends without a return
RECURSIVE SevereAlertCondition(_)
SevereAlertCondition(severe_alerts) ==
    IF severe_alerts = <<>> THEN <<>>
    ELSE LET alert == Head(severe_alerts)
         IN  IF Contains(alert.event, "flood") THEN <<FloodedCondition(alert)>>
             ELSE IF Contains(alert.event, "ice") \/ Contains(alert.event, "freezing")
             THEN <<IcyAlertCondition(alert)>>
             ELSE SevereAlertCondition(Tail(severe_alerts))

IcyKeywords == {"rain", "drizzle", "freezing", "sleet", "ice"}
WetKeywords == {"rain", "shower", "drizzle", "storm", "thunder"}

ContainsAny(text, kws) == \E kw \in kws : Contains(text, kw)

\* The rules of derive_road_condition after the alerts, in the code's order
WeatherCondition(temp, conditions, wind_speed) ==
    IF temp <= 32 /\ ContainsAny(conditions, IcyKeywords)
    THEN RoadCondition("icy", 3, "ICY ROADS", "#ef4444",
                       Describe("Freezing precipitation at F", temp, <<>>),
                       "Black ice likely - Reduce speed to 25 mph on bridges")
    ELSE IF Contains(conditions, "snow") \/ Contains(conditions, "blizzard")
    THEN RoadCondition("snow_covered",
                       IF Contains(conditions, "heavy") \/ Contains(conditions, "blizzard")
                       THEN 3 ELSE 2,
                       "SNOW", "#93c5fd",
                       Describe("Snow conditions at F", temp, <<>>),
                       "Reduce speed 50%, increase following distance to 8 seconds")
    ELSE IF temp <= 36 /\ temp > 32
    THEN RoadCondition("slippery", 2, "SLIPPERY", "#f59e0b",
                       Describe("Near-freezing F - bridges/overpasses may be icy",
                                temp, <<>>),
                       "Watch for black ice on elevated surfaces")
    ELSE IF Contains(conditions, "fog") \/ Contains(conditions, "mist")
            \/ Contains(conditions, "smoke")
    THEN RoadCondition("low_visibility", 2, "LOW VIS", "#9ca3af",
                       Describe("Fog/reduced visibility", NoneInt, <<>>),
                       "Low beams only, reduce speed to match visibility")
    ELSE IF wind_speed > 35
    THEN RoadCondition("dangerous_wind", 3, "HIGH WIND", "#8b5cf6",
                       Describe("Dangerous crosswinds at mph", wind_speed, <<>>),
                       "HIGH-PROFILE VEHICLES: Consider stopping until winds subside")
    ELSE IF ContainsAny(conditions, WetKeywords)
    THEN RoadCondition("wet",
                       IF Contains(conditions, "heavy") \/ Contains(conditions, "thunder")
                       THEN 2 ELSE 1,
                       "WET", "#3b82f6",
                       Describe("Wet roads - ", NoneInt, conditions),
                       "Headlights on, increase following distance to 4 seconds")
    ELSE RoadCondition("dry", 0, "DRY", "#22c55e",
                       Describe("Good conditions - F, ", temp,
                                IF conditions = <<>> THEN <<"Clear">> ELSE conditions),
                       "Normal driving conditions")

UnknownCondition ==
    RoadCondition("unknown", 0, "UNKNOWN", "#6b7280",
                  Describe("Weather data unavailable", NoneInt, <<>>),
                  "Drive with normal caution")

\* weather is None or <<WeatherData>>, alerts a sequence of WeatherAlert
derive_road_condition(weather, alerts) ==
    IF weather = None THEN UnknownCondition
    ELSE LET w == weather[1]
             by_alert == SevereAlertCondition(SelectSeq(alerts, IsSevere))
         IN  IF by_alert # <<>> THEN by_alert[1]
             ELSE WeatherCondition(RoadTemp(w), w.conditions, ParseWind(w.wind_speed))

\* ------------------------------------- get_turn_by_turn_directions, steps
\* What the function does once the request was sent, that is, when it was
\* handed (lat, lon) tuples as its signature declares.  A provider step is
\* [distance, duration, maneuver_type, instruction, name], distance in metres
\* and duration in seconds; cumulative_distance is kept in metres.
\* for leg in legs: for step in leg.get('steps', [])
RECURSIVE LegSteps(_)
LegSteps(legs) ==
    IF legs = <<>> THEN <<>> ELSE Head(legs).steps \o LegSteps(Tail(legs))

\* wp.waypoint.distance_from_start and abs(... - cumulative_distance) < 30
StepNear(wp, cumulative_meters) ==
    /\ wp.waypoint.distance_from_start # 0
    /\ Abs(wp.waypoint.distance_from_start * MetersPerMileE2 - cumulative_meters * 100)
         < 30 * MetersPerMileE2

\* for wp in waypoints_weather: ... break: the first waypoint near, 0 if none
RECURSIVE FirstStepWaypoint(_, _, _)
FirstStepWaypoint(waypoints_weather, k, cumulative_meters) ==
    IF k > Len(waypoints_weather) THEN 0
    ELSE IF StepNear(waypoints_weather[k], cumulative_meters) THEN k
    ELSE FirstStepWaypoint(waypoints_weather, k + 1, cumulative_meters)

\* distance_mi > 0.1 or maneuver_type not in ['straight', 'new name']
SignificantStep(step) ==
    step.distance * 1000 > MetersPerMileE2
      \/ step.maneuver_type \notin {"straight", "new name"}

\* The TurnByTurnStep of a provider step; distance_miles in tenths
TurnByTurnStep(step, cumulative_meters, waypoints_weather) ==
    LET k == FirstStepWaypoint(waypoints_weather, 1, cumulative_meters)
        with_weather == k # 0 /\ HasWeather(waypoints_weather[k])
    IN  [instruction |-> step.instruction,
         distance_miles |-> RoundDiv(step.distance * 1000, MetersPerMileE2),
         duration_minutes |-> RoundDiv(step.duration, 60),
         road_name |-> step.name,
         maneuver |-> step.maneuver_type,
         road_condition |->
            IF with_weather
            THEN <<derive_road_condition(waypoints_weather[k].weather,
                                         waypoints_weather[k].alerts)>>
            ELSE None,
         weather_at_step |->
            IF with_weather THEN WeatherOf(waypoints_weather[k]).conditions ELSE None,
         temperature |->
            IF with_weather THEN WeatherOf(waypoints_weather[k]).temperature
            ELSE NoneInt,
         has_alert |-> k # 0 /\ waypoints_weather[k].alerts # <<>>]

RECURSIVE StepLoop(_, _, _, _)
StepLoop(steps, provider_steps, cumulative_meters, waypoints_weather) ==
    IF provider_steps = <<>> THEN steps
    ELSE LET step == Head(provider_steps)
             cumulative == cumulative_meters + step.distance
         IN  StepLoop(IF SignificantStep(step)
                      THEN Append(steps, TurnByTurnStep(step, cumulative,
                                                        waypoints_weather))
                      ELSE steps,
                      Tail(provider_steps), cumulative, waypoints_weather)

\* reply: [status_code, routes], status_code 0 when the request raised
TurnByTurnSteps(reply, waypoints_weather) ==
    IF reply.status_code # 200 THEN <<>>
    ELSE IF reply.routes = <<>> THEN <<>>
    ELSE Take(StepLoop(<<>>, LegSteps(reply.routes[1].legs), 0, waypoints_weather), 50)

\* ---------------------------------------------------- packing suggestions
PackingSuggestion(item, reason, priority) ==
    [item |-> item, reason |-> reason, priority |-> priority]

\* any(str(x) in wind for x in range(15, 50)): two neighbouring digits of one
\* token that read as a number from 15 to 49
HasWindNumber(wind_speed) ==
    \E t \in DOMAIN wind_speed : \E i \in 1..(Len(wind_speed[t]) - 1) :
        /\ IsDigit(wind_speed[t][i])
        /\ IsDigit(wind_speed[t][i + 1])
        /\ 10 * DigitValue(wind_speed[t][i]) + DigitValue(wind_speed[t][i + 1])
              \in 15..49

\* The waypoints that have weather
WithWeather(wps) == {k \in DOMAIN wps : HasWeather(wps[k])}

\* temps: the temperatures that are neither None nor 0
PackingTemps(wps) ==
    { WeatherOf(wps[k]).temperature : k \in
        {j \in WithWeather(wps) : WeatherOf(wps[j]).temperature \notin {NoneInt, 0}} }

SetMin(S) == CHOOSE x \in S : \A y \in S : x <= y
SetMax(S) == CHOOSE x \in S : \A y \in S : x >= y

\* Temperature-based suggestions
TemperatureSuggestions(temps) ==
    IF temps = {} THEN <<>>
    ELSE LET min_temp == SetMin(temps)
             max_temp == SetMax(temps)
         IN  (IF min_temp < 40
              THEN <<PackingSuggestion("Warm jacket",
                        Describe("Temperatures as low as F expected", min_temp, <<>>),
                        "essential")>>
              ELSE <<>>)
             \o (IF min_temp < 32
                 THEN <<PackingSuggestion("Gloves & hat",
                           Describe("Freezing temperatures along route", NoneInt, <<>>),
                           "essential")>>
                 ELSE <<>>)
             \o (IF max_temp > 85
                 THEN <<PackingSuggestion("Extra water",
                           Describe("High temperatures up to F", max_temp, <<>>),
                           "essential")>>
                 ELSE <<>>)
             \o (IF max_temp - min_temp > 20
                 THEN <<PackingSuggestion("Layers",
                           Describe("Temperature range of F", max_temp - min_temp, <<>>),
                           "recommended")>>
                 ELSE <<>>)

\* Condition-based suggestions
ConditionSuggestions(wps) ==
    LET Mentioned(kws) == \E k \in WithWeather(wps) :
                        ContainsAny(WeatherOf(wps[k]).conditions, kws)
        has_rain == Mentioned({"rain", "shower"})
        has_snow == Mentioned({"snow", "flurr"})
        has_wind == \/ Mentioned({"wind"})
                    \/ \E k \in WithWeather(wps) :
                          HasWindNumber(WeatherOf(wps[k]).wind_speed)
        has_sun == Mentioned({"sun", "clear"})
    IN  (IF has_rain
         THEN <<PackingSuggestion("Umbrella/rain jacket",
                   Describe("Rain expected along route", NoneInt, <<>>), "essential")>>
         ELSE <<>>)
        \o (IF has_snow
            THEN <<PackingSuggestion("Snow gear & emergency kit",
                      Describe("Snow conditions expected", NoneInt, <<>>), "essential")>>
            ELSE <<>>)
        \o (IF has_wind
            THEN <<PackingSuggestion("Windbreaker",
                      Describe("Windy conditions expected", NoneInt, <<>>), "recommended")>>
            ELSE <<>>)
        \o (IF has_sun
            THEN <<PackingSuggestion("Sunglasses",
                      Describe("Sunny conditions expected", NoneInt, <<>>), "recommended"),
                   PackingSuggestion("Sunscreen",
                      Describe("Sun exposure during drive", NoneInt, <<>>), "optional")>>
            ELSE <<>>)

\* Always recommend
AlwaysSuggestions ==
    <<PackingSuggestion("Phone charger",
         Describe("Keep devices charged for navigation", NoneInt, <<>>), "essential"),
      PackingSuggestion("Snacks & water",
         Describe("Stay hydrated and energized", NoneInt, <<>>), "recommended")>>

generate_packing_suggestions(wps) ==
    Take(TemperatureSuggestions(PackingTemps(wps)) \o ConditionSuggestions(wps)
           \o AlwaysSuggestions,
         8)

\* ------------------------------------------------ route-wide conditions
\* location = wp.waypoint.name or f"Mile {int(wp.waypoint.distance_from_start or 0)}"
RerouteLocation(waypoint) ==
    IF waypoint.name # <<>> THEN waypoint.name
    ELSE <<"Mile", ToString(waypoint.distance_from_start)>>

\* f"{road_cond.label} conditions at {location} - {road_cond.description}"
RerouteReason(road_cond, waypoint) ==
    [label |-> road_cond.label, location |-> RerouteLocation(waypoint),
     description |-> road_cond.description]

\* Faulty variant: the reason taken from every waypoint that triggers
RerouteReasonAfter_Last(reroute_reason, road_cond, waypoint) ==
    <<RerouteReason(road_cond, waypoint)>>

\* if not reroute_reason: reroute_reason = ...
RerouteReasonAfter(reroute_reason, road_cond, waypoint) ==
    IF reroute_reason = None THEN <<RerouteReason(road_cond, waypoint)>>
    ELSE reroute_reason

\* The body of `for wp in waypoints_weather` of analyze_route_conditions
AnalyzeWaypoint(st, wp) ==
    LET road_cond == derive_road_condition(wp.weather, wp.alerts)
        worse == road_cond.severity > st.worst_severity
        hot == road_cond.severity >= 3
    IN  [all_conditions |-> Append(st.all_conditions, road_cond),
         worst_severity |-> IF worse THEN road_cond.severity ELSE st.worst_severity,
         worst_condition |-> IF worse THEN road_cond.condition ELSE st.worst_condition,
         reroute_needed |-> st.reroute_needed \/ hot,
         reroute_reason |-> IF hot
                            THEN RerouteReasonAfter(st.reroute_reason, road_cond,
                                                    wp.waypoint)
                            ELSE st.reroute_reason]

RECURSIVE AnalyzeLoop(_, _)
AnalyzeLoop(st, wps) ==
    IF wps = <<>> THEN st
    ELSE AnalyzeLoop(AnalyzeWaypoint(st, Head(wps)), Tail(wps))

\* condition_counts: per label of a condition that is not dry, in the order
\* of first occurrence, the number of waypoints with it
RECURSIVE ConditionCounts(_, _)
ConditionCounts(counts, all_conditions) ==
    IF all_conditions = <<>> THEN counts
    ELSE LET c == Head(all_conditions)
             at == {k \in DOMAIN counts : counts[k].label = c.label}
             next == IF c.condition = "dry" THEN counts
                     ELSE IF at = {} THEN Append(counts, [label |-> c.label, count |-> 1])
                     ELSE [k \in DOMAIN counts |->
                             IF k \in at THEN [counts[k] EXCEPT !.count = @ + 1]
                             ELSE counts[k]]
         IN  ConditionCounts(next, Tail(all_conditions))

RoadSummary(all_conditions) ==
    LET condition_counts == ConditionCounts(<<>>, all_conditions)
    IN  IF condition_counts = <<>>
        THEN [text |-> "Good road conditions expected throughout your route",
              parts |-> <<>>]
        ELSE [text |-> "Road hazards detected: ", parts |-> condition_counts]

\* returns summary, worst_condition, reroute_needed, reroute_reason
analyze_route_conditions(wps) ==
    LET st == AnalyzeLoop([all_conditions |-> <<>>, worst_severity |-> 0,
                           worst_condition |-> "dry", reroute_needed |-> FALSE,
                           reroute_reason |-> None], wps)
    IN  [road_condition_summary |-> RoadSummary(st.all_conditions),
         worst_road_condition |-> st.worst_condition,
         reroute_recommended |-> st.reroute_needed,
         reroute_reason |-> st.reroute_reason]

\* ---------------------------------------------------------- hazard alerts
\* "heavy rain" in conditions: a word ending in the first keyword followed
\* by a word beginning with the second
WordEndsWith(word, kw) == kw = "heavy" /\ word = "Heavy"
WordStartsWith(word, kw) == kw = "rain" /\ word = "Rain"
ContainsPhrase(text, first, second) ==
    \E k \in 1..(Len(text) - 1) :
        WordEndsWith(text[k], first) /\ WordStartsWith(text[k + 1], second)

HazardAlert(type, severity, distance, eta, message, recommendation, countdown) ==
    [type |-> type, severity |-> severity, distance_miles |-> distance,
     eta_minutes |-> eta, message |-> message, recommendation |-> recommendation,
     countdown_text |-> countdown]

\* severity_map.get(alert.severity, "medium")
HazardSeverity(severity) ==
    CASE severity = "Extreme" -> "extreme"
      [] severity = "Severe" -> "high"
      [] OTHER -> "medium"

\* One HazardAlert per NOAA alert of the waypoint
NoaaHazards(alerts, distance, eta) ==
    [k \in DOMAIN alerts |->
        HazardAlert("alert", HazardSeverity(alerts[k].severity), distance, eta,
                    Describe("", NoneInt, alerts[k].event),
                    Describe("", NoneInt, alerts[k].headline),
                    Describe(" in minutes", eta, alerts[k].event))]

\* The alerts one waypoint adds, in the order the code appends them
WaypointHazards(wp) ==
    IF ~HasWeather(wp) THEN <<>>
    ELSE
    LET w == WeatherOf(wp)
        distance == wp.waypoint.distance_from_start
        eta == IF wp.waypoint.eta_minutes # 0 THEN wp.waypoint.eta_minutes
               ELSE (distance * 60) \div 55
        wind_speed == ParseWind(w.wind_speed)
        conditions == w.conditions
        temp == ScoreTemp(w)
        wind == IF wind_speed > 25
                THEN <<HazardAlert("wind",
                         IF wind_speed > 40 THEN "extreme"
                         ELSE IF wind_speed > 30 THEN "high" ELSE "medium",
                         distance, eta,
                         Describe("Strong winds of mph", wind_speed, <<>>),
                         Describe("Reduce speed to mph",
                                  Max2(35, 65 - wind_speed + 25), <<>>),
                         IF eta > 0
                         THEN Describe("High winds in minutes", eta, <<>>)
                         ELSE Describe("High winds at start", NoneInt, <<>>))>>
                ELSE <<>>
        rain == IF ContainsPhrase(conditions, "heavy", "rain")
                   \/ Contains(conditions, "storm")
                THEN <<HazardAlert("rain", "high", distance, eta,
                         Describe("Heavy rain expected", NoneInt, <<>>),
                         Describe("Reduce speed, increase following distance to 4 seconds",
                                  NoneInt, <<>>),
                         Describe("Heavy rain in minutes at mile", eta,
                                  <<ToString(distance)>>))>>
                ELSE IF Contains(conditions, "rain") \/ Contains(conditions, "shower")
                THEN <<HazardAlert("rain", "medium", distance, eta,
                         Describe("Rain expected", NoneInt, <<>>),
                         Describe("Turn on headlights and wipers", NoneInt, <<>>),
                         Describe("Rain in minutes", eta, <<>>))>>
                ELSE <<>>
        snow == IF Contains(conditions, "snow")
                THEN <<HazardAlert("snow", "high", distance, eta,
                         Describe("Snow conditions expected", NoneInt, <<>>),
                         Describe("Reduce speed by 50%, use winter tires if available",
                                  NoneInt, <<>>),
                         Describe("Snow conditions in minutes", eta, <<>>))>>
                ELSE <<>>
        ice == IF temp <= 32
               THEN <<HazardAlert("ice", "high", distance, eta,
                        Describe("Freezing temperature (F) - ice risk", temp, <<>>),
                        Describe("Watch for black ice on bridges and overpasses",
                                 NoneInt, <<>>),
                        Describe("Ice risk zone in minutes", eta, <<>>))>>
               ELSE <<>>
        fog == IF Contains(conditions, "fog")
               THEN <<HazardAlert("visibility", "high", distance, eta,
                        Describe("Fog reducing visibility", NoneInt, <<>>),
                        Describe("Use low beams, reduce speed to match visibility",
                                 NoneInt, <<>>),
                        Describe("Fog in minutes", eta, <<>>))>>
               ELSE <<>>
    IN  wind \o rain \o snow \o ice \o fog \o NoaaHazards(wp.alerts, distance, eta)

\* for wp in waypoints_weather: every alert appended, in order
RECURSIVE AllHazards(_)
AllHazards(wps) ==
    IF wps = <<>> THEN <<>>
    ELSE WaypointHazards(Head(wps)) \o AllHazards(Tail(wps))

\* x put into the sorted list xs behind every element that is not farther
RECURSIVE InsertByDistance(_, _)
InsertByDistance(xs, x) ==
    IF xs = <<>> THEN <<x>>
    ELSE IF Head(xs).distance_miles <= x.distance_miles
    THEN <<Head(xs)>> \o InsertByDistance(Tail(xs), x)
    ELSE <<x>> \o xs

RECURSIVE SortFrom(_, _)
SortFrom(sorted, rest) ==
    IF rest = <<>> THEN sorted
    ELSE SortFrom(InsertByDistance(sorted, Head(rest)), Tail(rest))

\* Faulty variant: the list left in the order of generation
SortByDistance_Unsorted(alerts) == alerts

\* alerts.sort(key=lambda x: x.distance_miles): a stable sort
SortByDistance(alerts) == SortFrom(<<>>, alerts)

generate_hazard_alerts(wps) == Take(SortByDistance(AllHazards(wps)), 10)

\* ------------------------------------------------------ optimal departure
BadConditions == {"rain", "storm", "snow", "fog"}

\* if wp.weather: ... any(bad in conditions for bad in [...])
HasBadConditions(wp) ==
    HasWeather(wp) /\ ContainsAny(WeatherOf(wp).conditions, BadConditions)

\* current_hazards: one for every waypoint whose weather has bad conditions,
\* and len(wp.alerts) for every waypoint, with or without weather
RECURSIVE CurrentHazards(_)
CurrentHazards(wps) ==
    IF wps = <<>> THEN 0
    ELSE (IF HasBadConditions(Head(wps)) THEN 1 ELSE 0) + Len(Head(wps).alerts)
         + CurrentHazards(Tail(wps))

\* set(current_conditions)
CurrentConditions(wps) ==
    { WeatherOf(wps[k]).conditions : k \in {j \in DOMAIN wps : HasBadConditions(wps[j])} }

\* The source strings open with a pictograph, left off here
OptimalRecommendation == "Current departure time is optimal - clear conditions expected"
AcceptableRecommendation == "Acceptable conditions - drive with caution"
LaterRecommendation == "Consider departing 2-3 hours later for improved conditions"

\* Faulty variant: the recommendation decided by the safety score alone
DepartureRecommendation_ScoreOnly(current_hazards, overall_score) ==
    IF overall_score >= 80 THEN OptimalRecommendation
    ELSE IF overall_score >= 60 THEN AcceptableRecommendation
    ELSE LaterRecommendation

\* if current_hazards == 0 and safety.overall_score >= 80: ... elif ... else
DepartureRecommendation(current_hazards, overall_score) ==
    IF current_hazards = 0 /\ overall_score >= 80 THEN OptimalRecommendation
    ELSE IF current_hazards <= 2 /\ overall_score >= 60 THEN AcceptableRecommendation
    ELSE LaterRecommendation

\* conditions_summary: a text and up to `limit` of the distinct condition
\* texts, joined in the iteration order of a Python set
ConditionsSummary(recommendation, current_conditions) ==
    IF recommendation = OptimalRecommendation
    THEN [text |-> "Good driving conditions throughout your route",
          conditions |-> {}, limit |-> 0]
    ELSE IF recommendation = AcceptableRecommendation
    THEN [text |-> IF current_conditions = {} THEN "Some weather: Minor concerns"
                   ELSE "Some weather: ",
          conditions |-> current_conditions, limit |-> 2]
    ELSE [text |-> IF current_conditions = {} THEN "Current concerns: Weather alerts active"
                   ELSE "Current concerns: ",
          conditions |-> current_conditions, limit |-> 3]

\* base_departure is minute 0; the score is always that of a car
calculate_optimal_departure(waypoints_weather) ==
    LET current_hazards == CurrentHazards(waypoints_weather)
        safety == calculate_safety_score(waypoints_weather, "car")
        recommendation == DepartureRecommendation(current_hazards, safety.overall_score)
        total_duration ==
            IF waypoints_weather = <<>> THEN 120
            ELSE waypoints_weather[Len(waypoints_weather)].waypoint.eta_minutes
    IN  [departure_time |-> 0,
         arrival_time |-> total_duration,
         safety_score |-> safety.overall_score,
         hazard_count |-> current_hazards,
         recommendation |-> recommendation,
         conditions_summary |->
            ConditionsSummary(recommendation, CurrentConditions(waypoints_weather))]

\* ------------------------------------------------- inputs of the functions
\* wind_speed texts
Wind5 == << <<"5">>, <<"m", "p", "h">> >>
Wind25 == << <<"2", "5">>, <<"m", "p", "h">> >>
Wind45 == << <<"4", "5">>, <<"m", "p", "h">> >>
WindRange == << <<"1", "0">>, <<"t", "o">>, <<"1", "5">>, <<"m", "p", "h">> >>

Weather(temperature, wind_speed, conditions) ==
    <<[temperature |-> temperature, wind_speed |-> wind_speed,
       conditions |-> conditions]>>

Alert(severity, event) ==
    [severity |-> severity, event |-> event, headline |-> event \o <<"issued">>]

FloodAlert == Alert("Severe", <<"Flood", "Warning">>)
IceAlert == Alert("Extreme", <<"Ice", "Storm", "Warning">>)
WindAdvisory == Alert("Moderate", <<"Wind", "Advisory">>)

WaypointWeather(waypoint, weather, alerts) ==
    [waypoint |-> waypoint, weather |-> weather, alerts |-> alerts]

ScoreWaypointAt == Waypoint(60, 0, <<"Mile", "60">>, 60, 65)

ScoreInputs ==
    { WaypointWeather(ScoreWaypointAt, w, a) :
        <<w, a>> \in
          ({None} \X {<<>>, <<FloodAlert>>, <<FloodAlert, IceAlert>>})
          \cup ({Weather(70, Wind5, <<"Sunny">>)}
                  \X {<<>>, <<WindAdvisory>>, <<FloodAlert>>, <<FloodAlert, FloodAlert>>})
          \cup ({Weather(NoneInt, None, None), Weather(0, Wind5, <<"Clear">>),
                 Weather(-5, Wind5, <<"Clear">>),
                 Weather(28, Wind5, <<"Clear">>), Weather(35, Wind25, <<"Cloudy">>),
                 Weather(70, WindRange, <<"Sunny">>),
                 Weather(55, Wind45, <<"Light", "Rain">>),
                 Weather(45, Wind5, <<"Patchy", "Fog">>),
                 Weather(28, Wind45, <<"Heavy", "Snow">>)}
                  \X {<<>>})
          \cup ({Weather(28, Wind45, <<"Blizzard">>)} \X {<<FloodAlert, IceAlert>>}) }

ScoreVehicleTypes == {"car", "suv", "truck", "semi", "rv", "motorcycle", "trailer",
                      "bicycle"}

RECURSIVE SeqsUpTo(_, _)
SeqsUpTo(S, n) ==
    IF n = 0 THEN {<<>>}
    ELSE LET shorter == SeqsUpTo(S, n - 1)
         IN  shorter \cup { Append(xs, x) : xs \in shorter, x \in S }

\* Inputs of derive_road_condition
FloodWatch == Alert("Moderate", <<"Flood", "Watch">>)
ThunderstormAlert == Alert("Severe", <<"Severe", "Thunderstorm", "Warning">>)
RoadAlerts == {FloodAlert, IceAlert, WindAdvisory, FloodWatch, ThunderstormAlert}
RoadTemperatures == {NoneInt, -5, 0, 28, 32, 34, 36, 37, 70}
RoadWinds == {None, Wind5, Wind45}
RoadConditionTexts ==
    {None, <<"Cloudy">>, <<"Freezing", "Rain">>, <<"Light", "Rain">>,
     <<"Light", "Snow">>, <<"Heavy", "Snow">>, <<"Patchy", "Fog">>,
     <<"Thunderstorms">>, <<"Sleet">>}
RoadWeathers ==
    {None} \cup { Weather(t, w, c) : t \in RoadTemperatures, w \in RoadWinds,
                                     c \in RoadConditionTexts }

\* Inputs of extract_waypoints_from_route: points of one meridian, by mile
CoordMiles == {0, 5, 8, 45, 55, 60, 100, 112}
CoordPoints == { <<m, 0>> : m \in CoordMiles }
SampleInterval == 50

\* Inputs of generate_hazard_alerts
Wind30 == << <<"3", "0">>, <<"m", "p", "h">> >>
HazardMiles == {0, 60, 120}
HazardWaypointAt(d) == Waypoint(d, 0, <<"Mile", ToString(d)>>, d, calculate_eta(d))
HazardWeathers ==
    {None,
     Weather(70, Wind5, <<"Sunny">>),
     Weather(45, Wind30, <<"Light", "Rain">>),
     Weather(28, Wind45, <<"Heavy", "Rain", "Snow", "Fog">>)}
HazardAlertLists == {<<>>, <<FloodAlert, WindAdvisory>>}
HazardInputs ==
    { WaypointWeather(HazardWaypointAt(d), w, a) :
        d \in HazardMiles, w \in HazardWeathers, a \in HazardAlertLists }

\* Inputs of analyze_route_conditions
AnalyzeWaypoints ==
    {Waypoint(0, 0, <<"Start", "-", "Denver">>, 0, 0),
     Waypoint(60, 0, <<"Point", "1">>, 60, 65),
     Waypoint(120, 0, <<>>, 120, 130)}
AnalyzeWeathers ==
    { <<None, <<>>>>,
      <<Weather(70, Wind5, <<"Sunny">>), <<>>>>,
      <<Weather(55, Wind5, <<"Light", "Rain">>), <<>>>>,
      <<Weather(45, Wind5, <<"Patchy", "Fog">>), <<>>>>,
      <<Weather(28, Wind5, <<"Heavy", "Snow">>), <<>>>>,
      <<Weather(70, Wind45, <<"Cloudy">>), <<>>>>,
      <<Weather(70, Wind5, <<"Sunny">>), <<FloodAlert>>>> }
AnalyzeInputs ==
    { WaypointWeather(wp, wa[1], wa[2]) : wp \in AnalyzeWaypoints, wa \in AnalyzeWeathers }

\* Inputs of generate_packing_suggestions
PackingWeathers ==
    {None,
     Weather(NoneInt, None, None),
     Weather(0, Wind5, <<"Clear">>),
     Weather(28, Wind25, <<"Heavy", "Snow">>),
     Weather(35, Wind5, <<"Flurries">>),
     Weather(55, Wind5, <<"Light", "Rain">>),
     Weather(70, Wind5, <<"Cloudy">>),
     Weather(70, WindRange, <<"Windy">>),
     Weather(90, Wind5, <<"Sunny">>),
     Weather(90, Wind5, <<"Sunny", "then", "Rain", "Showers">>)}
PackingInputs == { WaypointWeather(ScoreWaypointAt, w, <<>>) : w \in PackingWeathers }

\* Inputs of the wind parse: wind_speed texts of up to MaxWindTokens tokens,
\* such as '15 mph', '10-15 mph', 'Gusts 45 mph' and 'Calm'
WindTokens ==
    { <<"5">>, <<"1", "5">>, <<"4", "5">>, <<"1", "0", "-", "1", "5">>,
      <<"m", "p", "h">>, <<"G", "u", "s", "t", "s">>, <<"C", "a", "l", "m">> }
WindTexts == SeqsUpTo(WindTokens, MaxWindTokens)

\* Inputs of get_turn_by_turn_directions: a route of 100 miles with waypoints
\* at miles 0, 50 and 100, and provider steps of 100 metres, 5 miles and 72
\* miles
StepWaypointAt(d) ==
    Waypoint(d, 0, <<"Mile", ToString(d)>>, d, calculate_eta(d))
StepWeatherAt(d) ==
    IF d = 0 THEN Weather(28, Wind5, <<"Heavy", "Snow">>)
    ELSE IF d = 50 THEN Weather(55, Wind5, <<"Light", "Rain">>)
    ELSE Weather(70, Wind5, <<"Sunny">>)
StepWaypointChoices(d) ==
    { WaypointWeather(StepWaypointAt(d), w, a) :
        w \in {None, StepWeatherAt(d)}, a \in {<<>>, <<FloodAlert>>} }
StepWaypointLists ==
    { <<a, b, c>> : a \in StepWaypointChoices(0), b \in StepWaypointChoices(50),
                    c \in StepWaypointChoices(100) }
ProviderStep(distance, duration, maneuver_type) ==
    [distance |-> distance, duration |-> duration, maneuver_type |-> maneuver_type,
     instruction |-> "Continue", name |-> "I-70"]
ProviderSteps ==
    { ProviderStep(100, 10, "straight"), ProviderStep(100, 10, "turn"),
      ProviderStep(8047, 330, "turn"), ProviderStep(115872, 4740, "new name") }
DirectionsReplies ==
    { [status_code |-> 0, routes |-> <<>>],
      [status_code |-> 200, routes |-> <<>>] }
    \cup { [status_code |-> 200, routes |-> <<[legs |-> <<[steps |-> steps]>>]>>] :
             steps \in SeqsUpTo(ProviderSteps, MaxSteps) }

\* Inputs of find_rest_stops: a route of 110 miles given by 4 points and one
\* of 7 miles given by 8 points, each with the waypoints sampled from it and
\* a weather, or none, for every waypoint
RestRoutes ==
    { <<<<0, 0>>, <<10, 0>>, <<50, 0>>, <<110, 0>>>>,
      <<<<0, 0>>, <<1, 0>>, <<2, 0>>, <<3, 0>>, <<4, 0>>, <<5, 0>>, <<6, 0>>, <<7, 0>>>> }
RestWeatherAt(d) ==
    IF d = 0 THEN Weather(28, Wind5, <<"Heavy", "Snow">>)
    ELSE IF d = 50 THEN Weather(90, Wind5, <<"Sunny">>)
    ELSE Weather(55, Wind5, <<"Light", "Rain">>)
RestWaypointLists(route_coords) ==
    LET sampled == extract_waypoints_from_route(route_coords, SampleInterval)
    IN  { [k \in DOMAIN sampled |->
              WaypointWeather(sampled[k],
                              IF k \in with_weather
                              THEN RestWeatherAt(sampled[k].distance_from_start)
                              ELSE None,
                              <<>>)] :
          with_weather \in SUBSET DOMAIN sampled }

\* ------------------------------------------------ inputs of the pipeline
Origins == {"Denver, CO"}
Destinations == {"Boulder, CO"}
StopLocations == {"Golden, CO", "Limon, CO"}
RequestVehicleTypes == {"semi"}

\* The centre the geocoder knows for a location, {'lon': ..., 'lat': ...}
GeocodeCenter(location) ==
    CASE location = "Denver, CO" -> [lon |-> 0, lat |-> 0]
      [] location = "Golden, CO" -> [lon |-> 0, lat |-> 12]
      [] location = "Boulder, CO" -> [lon |-> 0, lat |-> 75]
      [] location = "Limon, CO" -> [lon |-> 0, lat |-> 40]

\* geocode_location: None on an error or an empty feature list
GeocodeReplies(location) == {None, <<GeocodeCenter(location)>>}

\* Stop lists of up to MaxStops stops
StopLists == SeqsUpTo(StopLocations, MaxStops)

Requests ==
    [origin : Origins, destination : Destinations, stops : StopLists,
     vehicle_type : RequestVehicleTypes]

\* Decoded route geometries: two waypoints (Start, Destination), and three
\* (Start, Mile 55, Destination)
GeometryShort == <<<<0, 0>>, <<8, 0>>>>
GeometryLong == <<<<0, 0>>, <<55, 0>>, <<75, 0>>>>

RouteReplies ==
    { [code |-> "error", routes |-> <<>>],
      [code |-> "NoRoute", routes |-> <<>>],
      [code |-> "Ok", routes |-> <<>>],
      [code |-> "Ok",
       routes |-> <<[geometry |-> <<>>, duration |-> 0, distance |-> 0]>>],
      [code |-> "Ok",
       routes |-> <<[geometry |-> GeometryShort, duration |-> 900, distance |-> 12875]>>],
      [code |-> "Ok",
       routes |-> <<[geometry |-> GeometryLong, duration |-> 4530, distance |-> 120701]>>] }

WeatherReplies == {None, Weather(28, Wind45, <<"Heavy", "Snow">>)}
AlertsReplies == {<<>>, <<WindAdvisory, FloodAlert>>}
ReverseReplies == {"", "Idaho Springs, CO"}
AiReplies == {"unconfigured", "error", "Snow and wind ahead."}
RestReplies == {"error", "found"}
SaveReplies == {"ok", "error"}

\* ----------------------------------------------------------------- state
VARIABLES
    in_waypoints_weather,   \* the waypoint-weather list handed to a function
    in_vehicle_type,        \* the vehicle_type handed to calculate_safety_score
    out_safety_score,       \* None, or <<the SafetyScore returned>>
    in_weather,             \* the weather handed to derive_road_condition
    in_alerts,              \* the alerts handed to derive_road_condition
    out_road_condition,     \* None, or <<the RoadCondition returned>>
    in_wind_speed,          \* a wind_speed text
    out_wind_speed,         \* None, or <<the wind speed parsed from it>>
    in_coords,              \* the decoded polyline handed to extract_waypoints_from_route
    out_waypoints,          \* None, or <<the waypoints returned>>
    out_hazard_alerts,      \* None, or <<what generate_hazard_alerts returned>>
    out_route_conditions,   \* None, or <<what analyze_route_conditions returned>>
    out_packing_suggestions, \* None, or <<what generate_packing_suggestions returned>>
    out_optimal_departure,  \* None, or <<the DepartureWindow returned>>
    in_directions,          \* the directions provider's answer to get_turn_by_turn_directions
    out_turn_by_turn,       \* None, or <<the steps returned>>
    in_rest_replies,        \* the place provider's answers to find_rest_stops, in order
    out_rest_stops,         \* None, or <<the rest stops returned>>
    request,                \* the RouteRequest of get_route_weather
    pc,                     \* where get_route_weather stands
    origin_coords,          \* None or <<coords>>
    dest_coords,            \* None or <<coords>>
    stop_idx,               \* stops geocoded so far
    stop_coords,            \* the coords of the stops that resolved
    route_data,             \* None or <<what get_mapbox_route returned>>
    waypoints,              \* the sampled waypoints
    task_pc,                \* per fetch task: "weather", "alerts", "reverse", "done"
    task_weather,           \* per fetch task: its local `weather`
    task_alerts,            \* per fetch task: its local `alerts`
    results,                \* per fetch task: None or <<its WaypointWeather>>
    has_severe,             \* the flag the fetch tasks share
    waypoints_weather,      \* what asyncio.gather returned
    ai_summary,
    safety_score,           \* None or <<SafetyScore>>
    rest_todo,              \* sample indices find_rest_stops has still to look up
    rest_stops,
    response,               \* None or <<the assembled RouteWeatherResponse>>
    returned,               \* None or <<the response handed to the caller>>
    http_status,            \* 0 while the request runs
    http_detail,            \* the detail of the HTTPException raised
    db_routes,              \* the documents of db.routes
    calls,                  \* history: the calls made for this request
    replies                 \* history: what the providers answered

road_vars == <<in_weather, in_alerts, out_road_condition>>
wind_vars == <<in_wind_speed, out_wind_speed>>
extract_vars == <<in_coords, out_waypoints>>
list_vars == <<out_hazard_alerts, out_route_conditions, out_packing_suggestions>>
lookup_vars == <<out_optimal_departure, in_directions, out_turn_by_turn,
                 in_rest_replies, out_rest_stops>>
call_vars == <<road_vars, wind_vars, extract_vars, list_vars, lookup_vars>>
score_vars == <<in_waypoints_weather, in_vehicle_type, out_safety_score, call_vars>>
geocode_vars == <<origin_coords, dest_coords, stop_idx, stop_coords>>
fetch_vars == <<task_pc, task_weather, task_alerts, results, has_severe>>
enrich_vars == <<waypoints_weather, ai_summary, safety_score, rest_todo, rest_stops>>
outcome_vars == <<response, returned, http_status, http_detail, db_routes>>
pipeline_vars == <<request, pc, geocode_vars, route_data, waypoints, fetch_vars,
                   enrich_vars, outcome_vars, calls, replies>>
vars == <<score_vars, pipeline_vars>>

NoCalls ==
    [geocode |-> <<>>, route |-> <<>>, weather |-> <<>>, alerts |-> <<>>,
     reverse |-> <<>>, enrich |-> <<>>, directions |-> <<>>, save |-> 0]
NoReplies ==
    [geocode |-> <<>>, route |-> "", weather |-> <<>>, alerts |-> <<>>, out_of_order |-> FALSE,
     ai |-> "", rest |-> <<>>, save |-> ""]

\* get_route_weather entered with request r
PipelineStart(r) ==
    /\ request = r
    /\ pc = "geocode_origin"
    /\ origin_coords = None /\ dest_coords = None
    /\ stop_idx = 0 /\ stop_coords = <<>>
    /\ route_data = None /\ waypoints = <<>>
    /\ task_pc = <<>> /\ task_weather = <<>> /\ task_alerts = <<>>
    /\ results = <<>> /\ has_severe = FALSE
    /\ waypoints_weather = <<>> /\ ai_summary = "" /\ safety_score = None
    /\ rest_todo = <<>> /\ rest_stops = <<>>
    /\ response = None /\ returned = None
    /\ http_status = 0 /\ http_detail = <<>>
    /\ db_routes = <<>>
    /\ calls = NoCalls /\ replies = NoReplies

\* No function is being called on its own
RoadIdle == in_weather = None /\ in_alerts = <<>> /\ out_road_condition = None
WindIdle == in_wind_speed = None /\ out_wind_speed = None
ExtractIdle == in_coords = <<>> /\ out_waypoints = None
ListIdle ==
    /\ out_hazard_alerts = None
    /\ out_route_conditions = None
    /\ out_packing_suggestions = None
LookupIdle ==
    /\ out_optimal_departure = None
    /\ in_directions = None /\ out_turn_by_turn = None
    /\ in_rest_replies = <<>> /\ out_rest_stops = None
FunctionsIdle == RoadIdle /\ WindIdle /\ ExtractIdle /\ ListIdle /\ LookupIdle

ScoreIdle ==
    /\ in_waypoints_weather = <<>>
    /\ in_vehicle_type = "car"
    /\ out_safety_score = None
    /\ FunctionsIdle

\* raise HTTPException(status_code, detail)
Raise(status_code, detail) ==
    /\ pc' = "failed"
    /\ http_status' = status_code
    /\ http_detail' = detail
    /\ UNCHANGED <<response, returned, db_routes>>

\* Faulty variant: the no-route failure reported with the destination's message
NoRouteDetail_AsGeocode(r) == <<"Could not geocode destination: ", r.destination>>

OriginDetail(r) == <<"Could not geocode origin: ", r.origin>>
DestinationDetail(r) == <<"Could not geocode destination: ", r.destination>>
NoRouteDetail(r) ==
    <<"No drivable route found between ", r.origin, " and ", r.destination,
      ". These locations may not be connected by roads">>
NoWaypointsDetail == <<"Could not extract waypoints from route">>

LogGeocode(location, reply) ==
    /\ calls' = [calls EXCEPT !.geocode = Append(@, location)]
    /\ replies' = [replies EXCEPT !.geocode = Append(@, reply)]

\* Faulty variant: the origin's coordinates are not checked
OriginStep_Unchecked(reply) ==
    /\ origin_coords' = reply
    /\ LogGeocode(request.origin, reply)
    /\ pc' = "geocode_destination"
    /\ UNCHANGED outcome_vars

\* origin_coords = await geocode_location(request.origin), and the check
OriginStep(reply) ==
    /\ origin_coords' = reply
    /\ LogGeocode(request.origin, reply)
    /\ IF reply = None
       THEN Raise(400, OriginDetail(request))
       ELSE /\ pc' = "geocode_destination"
            /\ UNCHANGED outcome_vars

GeocodeOrigin ==
    /\ pc = "geocode_origin"
    /\ \E reply \in GeocodeReplies(request.origin) : OriginStep(reply)
    /\ UNCHANGED <<score_vars, request, dest_coords, stop_idx, stop_coords,
                   route_data, waypoints, fetch_vars, enrich_vars>>

\* dest_coords = await geocode_location(request.destination)
GeocodeDestination ==
    /\ pc = "geocode_destination"
    /\ \E reply \in GeocodeReplies(request.destination) :
         /\ dest_coords' = reply
         /\ LogGeocode(request.destination, reply)
         /\ IF reply = None
            THEN Raise(400, DestinationDetail(request))
            ELSE /\ pc' = IF request.stops # <<>> THEN "geocode_stops" ELSE "route"
                 /\ UNCHANGED outcome_vars
    /\ UNCHANGED <<score_vars, request, origin_coords, stop_idx, stop_coords,
                   route_data, waypoints, fetch_vars, enrich_vars>>

\* Faulty variant: a resolved stop put in front of the earlier ones
StopCoordsAfter_Prepend(coords, reply) ==
    IF reply # None THEN <<reply[1]>> \o coords ELSE coords

\* if coords: stop_coords.append(coords)
StopCoordsAfter(coords, reply) ==
    IF reply # None THEN Append(coords, reply[1]) ELSE coords

\* One pass of `for stop in request.stops`
GeocodeStop ==
    /\ pc = "geocode_stops"
    /\ LET stop == request.stops[stop_idx + 1]
       IN  \E reply \in GeocodeReplies(stop) :
             /\ LogGeocode(stop, reply)
             /\ stop_coords' = StopCoordsAfter(stop_coords, reply)
    /\ stop_idx' = stop_idx + 1
    /\ pc' = IF stop_idx + 1 = Len(request.stops) THEN "route" ELSE "geocode_stops"
    /\ UNCHANGED <<score_vars, request, origin_coords, dest_coords, route_data,
                   waypoints, fetch_vars, enrich_vars, outcome_vars>>

\* route_data = await get_mapbox_route(...), then the waypoints are sampled
\* and the fetch tasks created
GetRoute ==
    /\ pc = "route"
    /\ \E reply \in RouteReplies :
         LET data == get_mapbox_route(reply)
             sampled == IF data = None THEN <<>>
                        ELSE extract_waypoints_from_route(data[1].geometry, 50)
         IN  /\ route_data' = data
             /\ calls' = [calls EXCEPT
                  !.route = Append(@, CoordsList(origin_coords[1], dest_coords[1],
                                                 stop_coords)),
                  !.weather = [k \in DOMAIN sampled |-> 0],
                  !.alerts = [k \in DOMAIN sampled |-> 0],
                  !.reverse = [k \in DOMAIN sampled |-> 0]]
             /\ replies' = [replies EXCEPT
                  !.route = reply.code,
                  !.weather = [k \in DOMAIN sampled |-> None],
                  !.alerts = [k \in DOMAIN sampled |-> <<>>]]
             /\ waypoints' = sampled
             /\ task_pc' = [k \in DOMAIN sampled |-> "weather"]
             /\ task_weather' = [k \in DOMAIN sampled |-> None]
             /\ task_alerts' = [k \in DOMAIN sampled |-> <<>>]
             /\ results' = [k \in DOMAIN sampled |-> None]
             /\ IF data = None THEN Raise(400, NoRouteDetail(request))
                ELSE IF sampled = <<>> THEN Raise(500, NoWaypointsDetail)
                ELSE /\ pc' = "fetch"
                     /\ UNCHANGED outcome_vars
    /\ UNCHANGED <<score_vars, request, geocode_vars, has_severe, enrich_vars>>

\* Faulty variant: a failed weather fetch is tried a second time
AfterWeather_Retry(reply, attempts) ==
    IF reply = None /\ attempts < 2 THEN "weather" ELSE "alerts"

\* Where a fetch task goes on after get_noaa_weather returned, whatever it
\* returned: to the alerts
AfterWeather(reply, attempts) == "alerts"

\* weather = await get_noaa_weather(wp.lat, wp.lon)
TaskWeather(i) ==
    /\ pc = "fetch"
    /\ task_pc[i] = "weather"
    /\ \E reply \in WeatherReplies :
         /\ task_weather' = [task_weather EXCEPT ![i] = reply]
         /\ replies' = [replies EXCEPT !.weather[i] = reply]
         /\ task_pc' = [task_pc EXCEPT ![i] = AfterWeather(reply, calls.weather[i] + 1)]
    /\ calls' = [calls EXCEPT !.weather[i] = @ + 1]
    /\ UNCHANGED <<score_vars, request, pc, geocode_vars, route_data, waypoints,
                   task_alerts, results, has_severe, enrich_vars, outcome_vars>>

\* alerts = await get_noaa_alerts(wp.lat, wp.lon)
TaskAlerts(i) ==
    /\ pc = "fetch"
    /\ task_pc[i] = "alerts"
    /\ \E reply \in AlertsReplies :
         /\ task_alerts' = [task_alerts EXCEPT ![i] = reply]
         /\ replies' = [replies EXCEPT !.alerts[i] = reply]
    /\ calls' = [calls EXCEPT !.alerts[i] = @ + 1]
    /\ task_pc' = [task_pc EXCEPT ![i] = "reverse"]
    /\ UNCHANGED <<score_vars, request, pc, geocode_vars, route_data, waypoints,
                   task_weather, results, has_severe, enrich_vars, outcome_vars>>

\* location_name = await reverse_geocode(wp.lat, wp.lon), and the rest of
\* fetch_waypoint_weather, which runs without another await
TaskReverse(i) ==
    /\ pc = "fetch"
    /\ task_pc[i] = "reverse"
    /\ \E location_name \in ReverseReplies :
         results' = [results EXCEPT ![i] =
                       <<TaskResult(waypoints[i], i - 1, Len(waypoints),
                                    request.origin, request.destination,
                                    location_name, task_weather[i], task_alerts[i])>>]
    /\ has_severe' = UpdateHasSevere(has_severe, task_alerts[i])
    /\ calls' = [calls EXCEPT !.reverse[i] = @ + 1]
    /\ replies' = [replies EXCEPT !.out_of_order =
                     @ \/ \E j \in 1..(i - 1) : task_pc[j] # "done"]
    /\ task_pc' = [task_pc EXCEPT ![i] = "done"]
    /\ task_weather' = [task_weather EXCEPT ![i] = None]
    /\ task_alerts' = [task_alerts EXCEPT ![i] = <<>>]
    /\ UNCHANGED <<score_vars, request, pc, geocode_vars, route_data, waypoints,
                   enrich_vars, outcome_vars>>

\* Faulty variant: the stage ends as soon as the first task has completed,
\* with the results there are
Gather_FirstCompleted ==
    /\ pc = "fetch"
    /\ \E i \in DOMAIN task_pc : task_pc[i] = "done"
    /\ waypoints_weather' =
          gather(SelectSeq(results, LAMBDA result : result # None))
    /\ calls' = [calls EXCEPT !.enrich =
                   @ \o <<"generate_packing_suggestions", "build_weather_timeline">>]
    /\ pc' = "ai_summary"
    /\ UNCHANGED <<score_vars, request, geocode_vars, route_data, waypoints,
                   fetch_vars, ai_summary, safety_score, rest_todo, rest_stops,
                   outcome_vars, replies>>

\* waypoints_weather = await asyncio.gather(*tasks), then the packing
\* suggestions and the weather timeline
Gather ==
    /\ pc = "fetch"
    /\ \A i \in DOMAIN task_pc : task_pc[i] = "done"
    /\ waypoints_weather' = gather(results)
    /\ calls' = [calls EXCEPT !.enrich =
                   @ \o <<"generate_packing_suggestions", "build_weather_timeline">>]
    /\ pc' = "ai_summary"
    /\ UNCHANGED <<score_vars, request, geocode_vars, route_data, waypoints,
                   fetch_vars, ai_summary, safety_score, rest_todo, rest_stops,
                   outcome_vars, replies>>

\* Faulty variant: an exception of the summary provider reaches the caller
AiSummaryStep_Propagates(reply) ==
    /\ replies' = [replies EXCEPT !.ai = reply]
    /\ calls' = [calls EXCEPT !.enrich = Append(@, "generate_ai_summary")]
    /\ IF reply = "error"
       THEN /\ Raise(500, <<"Internal Server Error">>)
            /\ UNCHANGED <<ai_summary, safety_score, rest_todo>>
       ELSE /\ ai_summary' = generate_ai_summary(reply)
            /\ safety_score' = None
            /\ rest_todo' = <<>>
            /\ pc' = "rest_stops"
            /\ UNCHANGED outcome_vars

\* ai_summary = await generate_ai_summary(...), then the safety score and the
\* hazard alerts, and find_rest_stops is entered
AiSummaryStep(reply) ==
    /\ replies' = [replies EXCEPT !.ai = reply]
    /\ ai_summary' = generate_ai_summary(reply)
    /\ safety_score' =
         <<calculate_safety_score(waypoints_weather,
                                  IF request.vehicle_type = "" THEN "car"
                                  ELSE request.vehicle_type)>>
    /\ rest_todo' = RestSampleIndices(route_data[1].geometry)
    /\ calls' = [calls EXCEPT !.enrich =
                   @ \o <<"generate_ai_summary", "calculate_safety_score",
                          "generate_hazard_alerts", "find_rest_stops">>]
    /\ pc' = "rest_stops"
    /\ UNCHANGED outcome_vars

AiSummary ==
    /\ pc = "ai_summary"
    /\ \E reply \in AiReplies : AiSummaryStep(reply)
    /\ UNCHANGED <<score_vars, request, geocode_vars, route_data, waypoints,
                   fetch_vars, waypoints_weather, rest_stops>>

\* One pass of the loop of find_rest_stops
RestStopLookup ==
    /\ pc = "rest_stops"
    /\ rest_todo # <<>>
    /\ \E reply \in RestReplies :
         /\ rest_stops' = RestStopStep(rest_stops, reply, route_data[1].geometry,
                                       Head(rest_todo), waypoints_weather)
         /\ replies' = [replies EXCEPT !.rest = Append(@, reply)]
    /\ rest_todo' = Tail(rest_todo)
    /\ UNCHANGED <<score_vars, request, pc, geocode_vars, route_data, waypoints,
                   fetch_vars, waypoints_weather, ai_summary, safety_score,
                   outcome_vars, calls>>

\* RouteWeatherResponse(...)
AssembleResponse(turn_by_turn) ==
    [origin |-> request.origin,
     destination |-> request.destination,
     stops |-> request.stops,
     total_duration_minutes |-> DurationMinutes(route_data[1].duration),
     total_distance_miles |->
        RoundTenths(DivideByMetersPerMile(route_data[1].distance)),
     route_geometry |-> route_data[1].geometry,
     waypoints |-> waypoints_weather,
     ai_summary |-> ai_summary,
     has_severe_weather |-> has_severe,
     safety_score |-> safety_score[1],
     hazard_alerts |-> generate_hazard_alerts(waypoints_weather),
     rest_stops |-> Take(rest_stops, 5),
     vehicle_type |-> IF request.vehicle_type = "" THEN "car"
                      ELSE request.vehicle_type,
     turn_by_turn |-> turn_by_turn,
     road_condition_summary |->
        analyze_route_conditions(waypoints_weather).road_condition_summary,
     worst_road_condition |->
        analyze_route_conditions(waypoints_weather).worst_road_condition,
     reroute_recommended |->
        analyze_route_conditions(waypoints_weather).reroute_recommended,
     reroute_reason |-> analyze_route_conditions(waypoints_weather).reroute_reason]

\* find_rest_stops returns; the departure window, the trucker warnings, the
\* road conditions and the turn-by-turn steps follow, and the response is
\* assembled
FinishEnrichment ==
    /\ pc = "rest_stops"
    /\ rest_todo = <<>>
    /\ response' = <<AssembleResponse(
                       get_turn_by_turn_directions(origin_coords[1], dest_coords[1],
                                                   waypoints_weather))>>
    /\ calls' = [calls EXCEPT
                   !.enrich =
                      @ \o <<"calculate_optimal_departure", "analyze_route_conditions",
                             "get_turn_by_turn_directions">>,
                   !.directions =
                      @ \o DirectionsRequests(origin_coords[1], dest_coords[1])]
    /\ pc' = "save"
    /\ UNCHANGED <<score_vars, request, geocode_vars, route_data, waypoints,
                   fetch_vars, enrich_vars, returned, http_status, http_detail,
                   db_routes, replies>>

\* Faulty variant: the exception of insert_one is not caught
SaveStep_Propagates(reply) ==
    /\ replies' = [replies EXCEPT !.save = reply]
    /\ calls' = [calls EXCEPT !.save = @ + 1]
    /\ IF reply = "ok"
       THEN /\ db_routes' = Append(db_routes, response[1])
            /\ returned' = response
            /\ http_status' = 200
            /\ pc' = "done"
            /\ UNCHANGED <<response, http_detail>>
       ELSE Raise(500, <<"Internal Server Error">>)

\* await db.routes.insert_one(response.model_dump()) inside try/except, and
\* `return response`
SaveStep(reply) ==
    /\ replies' = [replies EXCEPT !.save = reply]
    /\ calls' = [calls EXCEPT !.save = @ + 1]
    /\ db_routes' = IF reply = "ok" THEN Append(db_routes, response[1]) ELSE db_routes
    /\ returned' = response
    /\ http_status' = 200
    /\ pc' = "done"
    /\ UNCHANGED <<response, http_detail>>

Save ==
    /\ pc = "save"
    /\ \E reply \in SaveReplies : SaveStep(reply)
    /\ UNCHANGED <<score_vars, request, geocode_vars, route_data, waypoints,
                   fetch_vars, enrich_vars>>

Init ==
    /\ ScoreIdle
    /\ \E r \in Requests : PipelineStart(r)

Next ==
    \/ GeocodeOrigin
    \/ GeocodeDestination
    \/ GeocodeStop
    \/ GetRoute
    \/ \E i \in DOMAIN task_pc : TaskWeather(i)
    \/ \E i \in DOMAIN task_pc : TaskAlerts(i)
    \/ \E i \in DOMAIN task_pc : TaskReverse(i)
    \/ Gather
    \/ AiSummary
    \/ RestStopLookup
    \/ FinishEnrichment
    \/ Save

Spec == Init /\ [][Next]_vars

\* -------------------------------------------- calculate_safety_score, called
PipelineIdle ==
    PipelineStart([origin |-> "Denver, CO", destination |-> "Boulder, CO",
                   stops |-> <<>>, vehicle_type |-> ""])

InitScore ==
    /\ in_waypoints_weather \in SeqsUpTo(ScoreInputs, MaxScoreWaypoints)
    /\ in_vehicle_type \in ScoreVehicleTypes
    /\ out_safety_score = None
    /\ FunctionsIdle
    /\ PipelineIdle

CallSafetyScore ==
    /\ out_safety_score = None
    /\ out_safety_score' =
         <<calculate_safety_score(in_waypoints_weather, in_vehicle_type)>>
    /\ UNCHANGED <<in_waypoints_weather, in_vehicle_type, call_vars, pipeline_vars>>

NextScore == CallSafetyScore

SpecScore == InitScore /\ [][NextScore]_vars

\* -------------------------------------------- derive_road_condition, called
ScoreNotCalled ==
    /\ in_waypoints_weather = <<>>
    /\ in_vehicle_type = "car"
    /\ out_safety_score = None

InitRoad ==
    /\ in_weather \in RoadWeathers
    /\ in_alerts \in SeqsUpTo(RoadAlerts, MaxRoadAlerts)
    /\ out_road_condition = None
    /\ WindIdle /\ ExtractIdle /\ ListIdle /\ LookupIdle
    /\ ScoreNotCalled
    /\ PipelineIdle

CallDeriveRoadCondition ==
    /\ out_road_condition = None
    /\ out_road_condition' = <<derive_road_condition(in_weather, in_alerts)>>
    /\ UNCHANGED <<in_weather, in_alerts, wind_vars, extract_vars, list_vars,
                   in_waypoints_weather, in_vehicle_type, out_safety_score,
                   lookup_vars, pipeline_vars>>

NextRoad == CallDeriveRoadCondition

SpecRoad == InitRoad /\ [][NextRoad]_vars

\* ------------------------------------- extract_waypoints_from_route, called
InitExtract ==
    /\ in_coords \in SeqsUpTo(CoordPoints, MaxCoords)
    /\ out_waypoints = None
    /\ RoadIdle /\ WindIdle /\ ListIdle /\ LookupIdle
    /\ ScoreNotCalled
    /\ PipelineIdle

CallExtractWaypoints ==
    /\ out_waypoints = None
    /\ out_waypoints' = <<extract_waypoints_from_route(in_coords, SampleInterval)>>
    /\ UNCHANGED <<in_coords, road_vars, wind_vars, list_vars,
                   in_waypoints_weather, in_vehicle_type, out_safety_score,
                   lookup_vars, pipeline_vars>>

NextExtract == CallExtractWaypoints

SpecExtract == InitExtract /\ [][NextExtract]_vars

\* ------------------------------------------- generate_hazard_alerts, called
InitHazard ==
    /\ in_waypoints_weather \in SeqsUpTo(HazardInputs, MaxHazardWaypoints)
    /\ in_vehicle_type = "car"
    /\ out_safety_score = None
    /\ RoadIdle /\ WindIdle /\ ExtractIdle /\ ListIdle /\ LookupIdle
    /\ PipelineIdle

CallHazardAlerts ==
    /\ out_hazard_alerts = None
    /\ out_hazard_alerts' = <<generate_hazard_alerts(in_waypoints_weather)>>
    /\ UNCHANGED <<in_waypoints_weather, in_vehicle_type, out_safety_score,
                   road_vars, wind_vars, extract_vars, out_route_conditions,
                   out_packing_suggestions,
                   lookup_vars, pipeline_vars>>

NextHazard == CallHazardAlerts

SpecHazard == InitHazard /\ [][NextHazard]_vars

\* ----------------------------------------- analyze_route_conditions, called
InitAnalyze ==
    /\ in_waypoints_weather \in SeqsUpTo(AnalyzeInputs, MaxAnalyzeWaypoints)
    /\ in_vehicle_type = "car"
    /\ out_safety_score = None
    /\ RoadIdle /\ WindIdle /\ ExtractIdle /\ ListIdle /\ LookupIdle
    /\ PipelineIdle

CallAnalyzeRouteConditions ==
    /\ out_route_conditions = None
    /\ out_route_conditions' = <<analyze_route_conditions(in_waypoints_weather)>>
    /\ UNCHANGED <<in_waypoints_weather, in_vehicle_type, out_safety_score,
                   road_vars, wind_vars, extract_vars, out_hazard_alerts,
                   out_packing_suggestions,
                   lookup_vars, pipeline_vars>>

NextAnalyze == CallAnalyzeRouteConditions

SpecAnalyze == InitAnalyze /\ [][NextAnalyze]_vars

\* ------------------------------------- generate_packing_suggestions, called
InitPacking ==
    /\ in_waypoints_weather \in SeqsUpTo(PackingInputs, MaxPackingWaypoints)
    /\ in_vehicle_type = "car"
    /\ out_safety_score = None
    /\ RoadIdle /\ WindIdle /\ ExtractIdle /\ ListIdle /\ LookupIdle
    /\ PipelineIdle

CallPackingSuggestions ==
    /\ out_packing_suggestions = None
    /\ out_packing_suggestions' = <<generate_packing_suggestions(in_waypoints_weather)>>
    /\ UNCHANGED <<in_waypoints_weather, in_vehicle_type, out_safety_score,
                   road_vars, wind_vars, extract_vars, out_hazard_alerts,
                   out_route_conditions,
                   lookup_vars, pipeline_vars>>

NextPacking == CallPackingSuggestions

SpecPacking == InitPacking /\ [][NextPacking]_vars

\* The wind parse of calculate_safety_score, generate_hazard_alerts,
\* generate_trucker_warnings and derive_road_condition, called once on a
\* wind_speed text
InitWind ==
    /\ in_wind_speed \in WindTexts
    /\ out_wind_speed = None
    /\ ScoreNotCalled
    /\ RoadIdle /\ ExtractIdle /\ ListIdle /\ LookupIdle
    /\ PipelineIdle

CallParseWind ==
    /\ out_wind_speed = None
    /\ out_wind_speed' = <<ParseWind(in_wind_speed)>>
    /\ UNCHANGED <<in_wind_speed, in_waypoints_weather, in_vehicle_type,
                   out_safety_score, road_vars, extract_vars, list_vars,
                   lookup_vars, pipeline_vars>>

NextWind == CallParseWind

SpecWind == InitWind /\ [][NextWind]_vars

\* -------------------------------------- calculate_optimal_departure, called
InitDeparture ==
    /\ in_waypoints_weather \in SeqsUpTo(ScoreInputs, MaxDepartureWaypoints)
    /\ in_vehicle_type = "car"
    /\ out_safety_score = None
    /\ RoadIdle /\ WindIdle /\ ExtractIdle /\ ListIdle /\ LookupIdle
    /\ PipelineIdle

CallOptimalDeparture ==
    /\ out_optimal_departure = None
    /\ out_optimal_departure' = <<calculate_optimal_departure(in_waypoints_weather)>>
    /\ UNCHANGED <<in_waypoints_weather, in_vehicle_type, out_safety_score,
                   road_vars, wind_vars, extract_vars, list_vars, in_directions,
                   out_turn_by_turn, in_rest_replies, out_rest_stops,
                   pipeline_vars>>

NextDeparture == CallOptimalDeparture

SpecDeparture == InitDeparture /\ [][NextDeparture]_vars

\* ------------------------- get_turn_by_turn_directions, called with tuples
InitTurns ==
    /\ in_waypoints_weather \in StepWaypointLists
    /\ in_directions = None
    /\ in_vehicle_type = "car"
    /\ out_safety_score = None
    /\ out_optimal_departure = None /\ out_turn_by_turn = None
    /\ in_rest_replies = <<>> /\ out_rest_stops = None
    /\ RoadIdle /\ WindIdle /\ ExtractIdle /\ ListIdle
    /\ PipelineIdle

\* response = await client.get(url, params=params)
DirectionsReply ==
    /\ in_directions = None
    /\ \E reply \in DirectionsReplies : in_directions' = <<reply>>
    /\ UNCHANGED <<in_waypoints_weather, in_vehicle_type, out_safety_score,
                   road_vars, wind_vars, extract_vars, list_vars,
                   out_optimal_departure, out_turn_by_turn, in_rest_replies,
                   out_rest_stops, pipeline_vars>>

ReturnTurnByTurn ==
    /\ in_directions # None
    /\ out_turn_by_turn = None
    /\ out_turn_by_turn' = <<TurnByTurnSteps(in_directions[1], in_waypoints_weather)>>
    /\ UNCHANGED <<in_waypoints_weather, in_vehicle_type, out_safety_score,
                   road_vars, wind_vars, extract_vars, list_vars,
                   out_optimal_departure, in_directions, in_rest_replies,
                   out_rest_stops, pipeline_vars>>

NextTurns == DirectionsReply \/ ReturnTurnByTurn

SpecTurns == InitTurns /\ [][NextTurns]_vars

\* --------------------------------------------------- find_rest_stops, called
InitRest ==
    /\ in_coords \in RestRoutes
    /\ in_waypoints_weather \in RestWaypointLists(in_coords)
    /\ in_rest_replies = <<>>
    /\ out_rest_stops = None
    /\ out_waypoints = None
    /\ in_vehicle_type = "car"
    /\ out_safety_score = None
    /\ out_optimal_departure = None
    /\ in_directions = None /\ out_turn_by_turn = None
    /\ RoadIdle /\ WindIdle /\ ListIdle
    /\ PipelineIdle

\* response = await client.get(url, params=params), once per sample point
RestReply ==
    /\ Len(in_rest_replies) < Len(RestSampleIndices(in_coords))
    /\ \E reply \in RestReplies : in_rest_replies' = Append(in_rest_replies, reply)
    /\ UNCHANGED <<in_waypoints_weather, in_vehicle_type, out_safety_score,
                   road_vars, wind_vars, extract_vars, list_vars,
                   out_optimal_departure, in_directions, out_turn_by_turn,
                   out_rest_stops, pipeline_vars>>

ReturnRestStops ==
    /\ Len(in_rest_replies) = Len(RestSampleIndices(in_coords))
    /\ out_rest_stops = None
    /\ out_rest_stops' =
          <<find_rest_stops(in_coords, in_waypoints_weather, in_rest_replies)>>
    /\ UNCHANGED <<in_waypoints_weather, in_vehicle_type, out_safety_score,
                   road_vars, wind_vars, extract_vars, list_vars,
                   out_optimal_departure, in_directions, out_turn_by_turn,
                   in_rest_replies, pipeline_vars>>

NextRest == RestReply \/ ReturnRestStops

SpecRest == InitRest /\ [][NextRest]_vars

\* ------------------------------------------------------------------ claims
\* Nothing but `n` geocoding calls was made for the request, and nothing
\* was stored or returned
OnlyGeocoded(n) ==
    /\ Len(calls.geocode) = n
    /\ calls.route = <<>>
    /\ calls.weather = <<>> /\ calls.alerts = <<>> /\ calls.reverse = <<>>
    /\ calls.enrich = <<>>
    /\ calls.save = 0
    /\ db_routes = <<>>
    /\ returned = None

\* C1: if geocoding the origin yields nothing the request is rejected with
\* status 400 naming the origin, and if the origin resolves but the
\* destination does not, with status 400 naming the destination; in both
\* cases no routing call, no per-waypoint fetch, no enrichment and no
\* persistence call is made.
C1_GeocodeRejects ==
    /\ (Len(replies.geocode) >= 1 /\ replies.geocode[1] = None) =>
          /\ pc = "failed"
          /\ http_status = 400
          /\ http_detail = <<"Could not geocode origin: ", request.origin>>
          /\ OnlyGeocoded(1)
    /\ (Len(replies.geocode) >= 2 /\ replies.geocode[2] = None) =>
          /\ replies.geocode[1] # None
          /\ pc = "failed"
          /\ http_status = 400
          /\ http_detail = <<"Could not geocode destination: ", request.destination>>
          /\ OnlyGeocoded(2)

\* C1 witness: a request with stops whose origin resolved and whose
\* destination did not, rejected
C1_Witness ==
    /\ request.stops # <<>>
    /\ Len(replies.geocode) = 2
    /\ replies.geocode[1] # None
    /\ replies.geocode[2] = None
    /\ http_status = 400

\* C2: when origin and destination geocode but the routing provider reports
\* no route, the request is rejected with status 400 and a 'No drivable route
\* found' reason that differs from both geocoding reasons, and nothing is
\* persisted.
C2_NoRouteRejects ==
    replies.route = "NoRoute" =>
        /\ replies.geocode[1] # None /\ replies.geocode[2] # None
        /\ pc = "failed"
        /\ http_status = 400
        /\ http_detail[1] = "No drivable route found between "
        /\ http_detail # <<"Could not geocode origin: ", request.origin>>
        /\ http_detail # <<"Could not geocode destination: ", request.destination>>
        /\ calls.save = 0
        /\ db_routes = <<>>
        /\ returned = None

\* C2 witness: the provider answered NoRoute to a routing call with a via stop
C2_Witness ==
    /\ replies.route = "NoRoute"
    /\ Len(calls.route) = 1
    /\ Len(calls.route[1]) = 3
    /\ pc = "failed"

SameSample(ww, k) ==
    /\ ww[k].waypoint.lat = waypoints[k].lat
    /\ ww[k].waypoint.lon = waypoints[k].lon
    /\ ww[k].waypoint.distance_from_start = waypoints[k].distance_from_start
    /\ ww[k].waypoint.eta_minutes = waypoints[k].eta_minutes

AfterGather == pc \in {"ai_summary", "rest_stops", "save", "done"}

\* C3: for any completion order of the fetch tasks, the waypoints list holds
\* exactly one WaypointWeather per sampled waypoint, at the same index and with
\* the same lat/lon, distance_from_start and eta_minutes; a waypoint whose
\* weather fetch failed appears with weather=None, and the request still
\* succeeds.
C3_WaypointsPreserved ==
    /\ AfterGather =>
          /\ Len(waypoints_weather) = Len(waypoints)
          /\ \A k \in DOMAIN waypoints :
                /\ SameSample(waypoints_weather, k)
                /\ waypoints_weather[k].weather = replies.weather[k]
    /\ response # None => response[1].waypoints = waypoints_weather
    /\ calls.weather # <<>> => pc # "failed"
    /\ pc = "done" => /\ http_status = 200
                      /\ returned = response

\* C3 witness: a returned response of three waypoints, the tasks having
\* completed out of index order, the middle weather fetch having failed
C3_Witness ==
    /\ pc = "done"
    /\ replies.out_of_order
    /\ Len(returned[1].waypoints) = 3
    /\ replies.weather[2] = None
    /\ returned[1].waypoints[2].weather = None
    /\ returned[1].waypoints[3].weather # None

SevereFetched ==
    \E i \in DOMAIN replies.alerts : \E k \in DOMAIN replies.alerts[i] :
        replies.alerts[i][k].severity \in {"Extreme", "Severe"}

\* C4: under every interleaving of the fetch tasks, has_severe_weather is
\* true iff at least one waypoint's fetched alert list contains an alert of
\* severity Extreme or Severe.
C4_HasSevere ==
    /\ AfterGather => (has_severe <=> SevereFetched)
    /\ response # None => (response[1].has_severe_weather <=> SevereFetched)

\* C4 witness: a response flagged severe where only the first waypoint had a
\* severe alert and a later task finished before it
C4_Witness ==
    /\ response # None
    /\ response[1].has_severe_weather
    /\ replies.out_of_order
    /\ Len(replies.alerts) = 3
    /\ replies.alerts[1] # <<>>
    /\ replies.alerts[2] = <<>>
    /\ replies.alerts[3] = <<>>

\* C5: a failure of the save is never propagated: the caller receives the
\* assembled response whether the save succeeds or raises, and the save is
\* attempted exactly once, after the response has been assembled.
C5_SaveBestEffort ==
    /\ calls.save >= 1 =>
          /\ calls.save = 1
          /\ response # None
          /\ pc = "done"
          /\ http_status = 200
          /\ returned = response
    /\ pc = "done" => calls.save = 1
    /\ replies.save = "error" => db_routes = <<>>
    /\ replies.save = "ok" => db_routes = <<response[1]>>

\* C5 witness: the save raised and the response was returned
C5_Witness ==
    /\ replies.save = "error"
    /\ pc = "done"
    /\ returned # None
    /\ returned = response

Resolved(reply) == reply # None

\* The <<lon, lat>> of the stops that resolved, in request order, from
\* the geocoder's answers
ResolvedStops ==
    LET answers == SelectSeq(SubSeq(replies.geocode, 3, Len(replies.geocode)),
                             Resolved)
    IN  [k \in DOMAIN answers |-> <<answers[k][1].lon, answers[k][1].lat>>]

\* C6: stops that fail to geocode never fail the request: the routing call
\* receives exactly the coordinates of the stops that resolved, in request
\* order, and the pipeline continues to the routing stage.
C6_StopsSoftFail ==
    /\ (pc = "failed" /\ calls.route = <<>>) =>
          \/ replies.geocode[1] = None
          \/ (Len(replies.geocode) = 2 /\ replies.geocode[2] = None)
    /\ (Len(replies.geocode) = 2 + Len(request.stops)
        /\ replies.geocode[1] # None /\ replies.geocode[2] # None) =>
          (pc = "route" \/ calls.route # <<>>)
    /\ calls.route # <<>> =>
          /\ Len(replies.geocode) = 2 + Len(request.stops)
          /\ calls.route[1] =
               <<<<replies.geocode[1][1].lon, replies.geocode[1][1].lat>>>>
                 \o ResolvedStops
                 \o <<<<replies.geocode[2][1].lon, replies.geocode[2][1].lat>>>>

\* C6 witness: of two stops the first did not resolve; the routing call was
\* made with the second as its only via point
C6_Witness ==
    /\ Len(request.stops) = 2
    /\ calls.route # <<>>
    /\ replies.geocode[3] = None
    /\ replies.geocode[4] # None
    /\ Len(calls.route[1]) = 3
    /\ pc = "fetch"

FoundCount == Cardinality({k \in DOMAIN replies.rest : replies.rest[k] = "found"})

\* C7: a failure of the AI-summary provider (unconfigured key or exception),
\* of the rest-stop lookup or of the turn-by-turn lookup never aborts a
\* request that has reached the enrichment stage: ai_summary becomes a
\* fallback string, the affected list becomes empty or shorter, and the
\* response is still returned.
C7_EnrichmentNeverAborts ==
    /\ calls.enrich # <<>> => pc # "failed"
    /\ replies.ai = "unconfigured" =>
          ai_summary = "AI summary unavailable - Google API key not configured."
    /\ replies.ai = "error" =>
          ai_summary =
            "Weather summary unavailable. Check individual waypoints for conditions."
    /\ Len(rest_stops) = FoundCount
    /\ response # None =>
          /\ response[1].turn_by_turn = <<>>
          /\ response[1].ai_summary = ai_summary
          /\ Len(response[1].rest_stops) = FoundCount
    /\ pc = "done" => (http_status = 200 /\ returned = response)

\* C7 witness: the summary provider raised, the one rest-stop lookup raised,
\* and the response was returned with the fallback text and no rest stop
C7_Witness ==
    /\ pc = "done"
    /\ replies.ai = "error"
    /\ replies.rest = <<"error">>
    /\ returned[1].rest_stops = <<>>
    /\ returned[1].turn_by_turn = <<>>
    /\ http_status = 200

\* The locations of the request in the order they are geocoded
GeocodeSlots == <<request.origin, request.destination>> \o request.stops

\* C8: within one request every provider call is attempted at most once:
\* each location is geocoded once, and for each waypoint the weather, alerts
\* and reverse-geocode calls are each issued once; a failed call is never
\* re-issued.
C8_AtMostOnce ==
    /\ Len(calls.geocode) <= Len(GeocodeSlots)
    /\ calls.geocode = SubSeq(GeocodeSlots, 1, Len(calls.geocode))
    /\ Len(calls.route) <= 1
    /\ \A i \in DOMAIN calls.weather :
          /\ calls.weather[i] <= 1
          /\ calls.alerts[i] <= 1
          /\ calls.reverse[i] <= 1
    /\ calls.save <= 1
    /\ AfterGather =>
          /\ Len(calls.geocode) = Len(GeocodeSlots)
          /\ Len(calls.route) = 1
          /\ \A i \in DOMAIN waypoints :
                /\ calls.weather[i] = 1
                /\ calls.alerts[i] = 1
                /\ calls.reverse[i] = 1

\* C8 witness: a finished request in which a stop did not geocode and a
\* weather fetch failed, each having been tried once
C8_Witness ==
    /\ pc = "done"
    /\ Len(request.stops) = 1
    /\ replies.geocode[3] = None
    /\ calls.geocode = <<request.origin, request.destination, request.stops[1]>>
    /\ replies.weather[1] = None
    /\ calls.weather[1] = 1

AllWeatherMissing(wps) == \A k \in DOMAIN wps : ~HasWeather(wps[k])

\* C9: calculate_safety_score returns an integer overall_score in [0,100] for
\* every waypoint list and every vehicle_type, an unknown vehicle_type is
\* scored as a car, and when every waypoint has weather=None the score is 100,
\* the risk level 'low', and factors and recommendations are exactly the
\* default factor and the default recommendation.
C9_ScoreBounded ==
    out_safety_score # None =>
        LET s == out_safety_score[1]
        IN  /\ s.overall_score \in 0..100
            /\ in_vehicle_type \notin DOMAIN VEHICLE_TYPES =>
                 s = calculate_safety_score(in_waypoints_weather, "car")
            /\ AllWeatherMissing(in_waypoints_weather) =>
                 /\ s.overall_score = 100
                 /\ s.risk_level = "low"
                 /\ s.factors = <<DefaultFactor>>
                 /\ s.recommendations = <<DefaultRecommendation>>

\* C9 witness: a scored list of two waypoints, none with weather, one of them
\* carrying Severe/Extreme alerts, for an unknown vehicle type
C9_Witness ==
    /\ out_safety_score # None
    /\ Len(in_waypoints_weather) = 2
    /\ AllWeatherMissing(in_waypoints_weather)
    /\ \E k \in DOMAIN in_waypoints_weather :
          in_waypoints_weather[k].alerts = <<FloodAlert, IceAlert>>
    /\ in_vehicle_type = "bicycle"
    /\ out_safety_score[1].overall_score = 100

\* C10: risk_level is 'low' iff score >= 80, 'moderate' iff 60 <= score < 80,
\* 'high' iff 40 <= score < 60, 'extreme' iff score < 40; and when it is
\* 'extreme' the first returned recommendation is the urgent 'Consider
\* postponing trip' one.
C10_RiskLevels ==
    out_safety_score # None =>
        LET s == out_safety_score[1]
        IN  /\ (s.risk_level = "low") <=> (s.overall_score >= 80)
            /\ (s.risk_level = "moderate") <=>
                 (s.overall_score >= 60 /\ s.overall_score < 80)
            /\ (s.risk_level = "high") <=>
                 (s.overall_score >= 40 /\ s.overall_score < 60)
            /\ (s.risk_level = "extreme") <=> (s.overall_score < 40)
            /\ s.risk_level = "extreme" =>
                 s.recommendations[1] = PostponeRecommendation

\* C10 witness: an extreme score whose recommendations were capped at 4
C10_Witness ==
    /\ out_safety_score # None
    /\ out_safety_score[1].risk_level = "extreme"
    /\ out_safety_score[1].overall_score = 0
    /\ Len(out_safety_score[1].recommendations) = 4
    /\ out_safety_score[1].recommendations[1] = PostponeRecommendation

\* C11: in the SafetyScore each distinct factor string appears at most once,
\* however many waypoints or alerts trigger it ('Weather alert: <event>'
\* factors included), factors has at most 5 entries and recommendations at
\* most 4.
C11_FactorsDeduplicated ==
    out_safety_score # None =>
        LET s == out_safety_score[1]
        IN  /\ \A i, j \in DOMAIN s.factors :
                  s.factors[i] = s.factors[j] => i = j
            /\ Len(s.factors) <= 5
            /\ Len(s.recommendations) <= 4

MentionsFlood(alert) == IsSevere(alert) /\ Contains(alert.event, "flood")

\* C12: derive_road_condition returns 'flooded' with severity 4 whenever
\* weather is present and any Extreme/Severe alert has an event text
\* containing 'flood', regardless of the other alerts and of the position of
\* the flood alert among them.
C12_FloodFirst ==
    (/\ out_road_condition # None
     /\ in_weather # None
     /\ \E k \in DOMAIN in_alerts : MentionsFlood(in_alerts[k])) =>
        /\ out_road_condition[1].condition = "flooded"
        /\ out_road_condition[1].severity = 4

MentionsFloodOrIce(alert) ==
    /\ IsSevere(alert)
    /\ \/ Contains(alert.event, "flood")
       \/ Contains(alert.event, "ice")
       \/ Contains(alert.event, "freezing")

\* C13: with weather present and no Extreme/Severe alert mentioning flood,
\* ice or freezing, derive_road_condition returns 'icy' with severity 3 for
\* every integer temperature <= 32 whose conditions text contains any of rain,
\* drizzle, freezing, sleet or ice.
C13_FreezingPrecipitationIcy ==
    (/\ out_road_condition # None
     /\ in_weather # None
     /\ \A k \in DOMAIN in_alerts : ~MentionsFloodOrIce(in_alerts[k])
     /\ in_weather[1].temperature # NoneInt
     /\ in_weather[1].temperature <= 32
     /\ ContainsAny(in_weather[1].conditions,
                    {"rain", "drizzle", "freezing", "sleet", "ice"})) =>
        /\ out_road_condition[1].condition = "icy"
        /\ out_road_condition[1].severity = 3

Count(xs, x) == Cardinality({k \in DOMAIN xs : xs[k] = x})

ConditionAt(wps, k) == derive_road_condition(wps[k].weather, wps[k].alerts)

\* The waypoints whose road condition has severity 3 or more
SevereSegments(wps) == {k \in DOMAIN wps : ConditionAt(wps, k).severity >= 3}

\* C16: analyze_route_conditions returns reroute_recommended = true iff
\* derive_road_condition gives severity >= 3 for at least one waypoint;
\* reroute_reason is non-null exactly when reroute_recommended is true, and it
\* names the first waypoint in route order whose severity is >= 3.
C16_RerouteFirstSevere ==
    out_route_conditions # None =>
        LET r == out_route_conditions[1]
            wps == in_waypoints_weather
            hot == SevereSegments(wps)
        IN  /\ r.reroute_recommended <=> (hot # {})
            /\ (r.reroute_reason # None) <=> r.reroute_recommended
            /\ hot # {} =>
                 LET first == CHOOSE k \in hot : \A j \in hot : k <= j
                 IN  /\ r.reroute_reason[1].location
                          = RerouteLocation(wps[first].waypoint)
                     /\ r.reroute_reason[1].label = ConditionAt(wps, first).label
                     /\ r.reroute_reason[1].description
                          = ConditionAt(wps, first).description

\* C16 witness: two waypoints with severity >= 3 and different conditions at
\* different places; the reason names the first
C16_Witness ==
    /\ out_route_conditions # None
    /\ Len(in_waypoints_weather) = 2
    /\ SevereSegments(in_waypoints_weather) = {1, 2}
    /\ ConditionAt(in_waypoints_weather, 1).label
         # ConditionAt(in_waypoints_weather, 2).label
    /\ in_waypoints_weather[1].waypoint.name # in_waypoints_weather[2].waypoint.name
    /\ out_route_conditions[1].reroute_recommended
    /\ out_route_conditions[1].reroute_reason[1].location
         = in_waypoints_weather[1].waypoint.name

\* C17: generate_packing_suggestions always includes both the 'Phone charger'
\* and the 'Snacks & water' suggestions in the list it returns, for every
\* waypoint-weather input, and the list never has more than 8 entries.
C17_AlwaysChargerAndSnacks ==
    out_packing_suggestions # None =>
        LET res == out_packing_suggestions[1]
        IN  /\ \E k \in DOMAIN res : res[k].item = "Phone charger"
            /\ \E k \in DOMAIN res : res[k].item = "Snacks & water"
            /\ Len(res) <= 8

\* The waypoint-weather list that the providers' answers determine: waypoint
\* k as its task named it, with the weather and the alerts answered for it
AnsweredWaypointsWeather ==
    [k \in DOMAIN waypoints |->
        [waypoint |-> results[k][1].waypoint,
         weather |-> replies.weather[k],
         alerts |-> replies.alerts[k]]]

RequestedVehicleType ==
    IF request.vehicle_type = "" THEN "car" ELSE request.vehicle_type

\* C18: the safety score, the hazard alerts, the road condition summary, the
\* worst road condition and the reroute fields of a response are a function
\* of the request and of what the providers answered for each waypoint:
\* neither the order in which the fetches completed nor the answers of the
\* summary, rest-stop and database providers change them, so two runs with the
\* same request and the same answers return the same derived fields
C18_DerivedFieldsDeterministic ==
    response # None =>
        LET ww == AnsweredWaypointsWeather
            road == analyze_route_conditions(ww)
        IN  /\ response[1].safety_score
                    = calculate_safety_score(ww, RequestedVehicleType)
            /\ response[1].hazard_alerts = generate_hazard_alerts(ww)
            /\ response[1].road_condition_summary = road.road_condition_summary
            /\ response[1].worst_road_condition = road.worst_road_condition
            /\ response[1].reroute_recommended = road.reroute_recommended
            /\ response[1].reroute_reason = road.reroute_reason

\* A response for three waypoints whose fetches completed out of order, with
\* weather answered for the first and the last only, hazards and a reroute
C18_Witness ==
    /\ response # None
    /\ replies.out_of_order
    /\ Len(waypoints) = 3
    /\ replies.weather[1] # None
    /\ replies.weather[2] = None
    /\ replies.weather[3] # None
    /\ replies.alerts[3] # <<>>
    /\ response[1].hazard_alerts # <<>>
    /\ response[1].reroute_recommended
    /\ response[1].reroute_reason # None

\* The severities of the documented rules whose condition holds for a weather
\* w and a list of alerts, whatever their place in the decision order
MatchingSeverities(w, alerts) ==
    LET temp == RoadTemp(w)
        conditions == w.conditions
        severe_alerts == SelectSeq(alerts, IsSevere)
        AlertMentions(kw) ==
            \E k \in DOMAIN severe_alerts : Contains(severe_alerts[k].event, kw)
    IN  {0}
        \cup (IF AlertMentions("flood") THEN {4} ELSE {})
        \cup (IF AlertMentions("ice") \/ AlertMentions("freezing") THEN {3} ELSE {})
        \cup (IF temp <= 32 /\ ContainsAny(conditions, IcyKeywords) THEN {3} ELSE {})
        \cup (IF Contains(conditions, "snow") \/ Contains(conditions, "blizzard")
              THEN {IF Contains(conditions, "heavy") \/ Contains(conditions, "blizzard")
                    THEN 3 ELSE 2}
              ELSE {})
        \cup (IF temp > 32 /\ temp <= 36 THEN {2} ELSE {})
        \cup (IF Contains(conditions, "fog") \/ Contains(conditions, "mist")
                 \/ Contains(conditions, "smoke")
              THEN {2} ELSE {})
        \cup (IF ParseWind(w.wind_speed) > 35 THEN {3} ELSE {})
        \cup (IF ContainsAny(conditions, WetKeywords)
              THEN {IF Contains(conditions, "heavy") \/ Contains(conditions, "thunder")
                    THEN 2 ELSE 1}
              ELSE {})

\* C19: for a weather that is present, the severity that
\* derive_road_condition returns is the greatest severity among the
\* documented rules whose condition holds, so an earlier rule of the decision
\* order never hides a more severe later one
C19_SeverityIsMaxOfMatchingRules ==
    (out_road_condition # None /\ in_weather # None) =>
        out_road_condition[1].severity
            = SetMax(MatchingSeverities(in_weather[1], in_alerts))

\* The characters of a wind_speed text, a blank between two tokens
RECURSIVE TextChars(_)
TextChars(text) ==
    IF text = <<>> THEN <<>>
    ELSE IF Len(text) = 1 THEN text[1]
    ELSE text[1] \o <<" ">> \o TextChars(Tail(text))

\* The value of the first run of digits anywhere in a text, 0 without a digit
FirstDigitRun(text) ==
    LET chars == TextChars(text)
        starts == {i \in DOMAIN chars : IsDigit(chars[i])}
    IN  IF starts = {} THEN 0
        ELSE LET first == SetMin(starts)
                 last == SetMax({j \in first..Len(chars) :
                                   \A k \in first..j : IsDigit(chars[k])})
             IN  DigitsToInt(SubSeq(chars, first, last))

\* C20: the wind speed parsed from a wind_speed text is the value of the
\* first run of digits anywhere in the text, and 0 when the text is missing
\* or has no digit
C20_FirstRunOfDigits ==
    out_wind_speed # None => out_wind_speed[1] = FirstDigitRun(in_wind_speed)

\* The penalty, in hundredths, that the documented rules give one waypoint
\* with weather: the temperature is taken as reported (a missing one gives
\* no penalty), the wind as the scorer parses it
DocumentedPenalty(wp, vehicle) ==
    LET w == WeatherOf(wp)
        temp == w.temperature
        wind == ParseWind(w.wind_speed)
        conditions == w.conditions
        severe == SelectSeq(wp.alerts, IsSevere)
    IN  (IF temp = NoneInt THEN 0
         ELSE IF temp < 32 THEN 15 * vehicle.ice_sensitivity
         ELSE IF temp < 40 THEN 5 * vehicle.ice_sensitivity
         ELSE 0)
        + (IF wind > 30 THEN 20 * vehicle.wind_sensitivity
           ELSE IF wind > 20 THEN 8 * vehicle.wind_sensitivity
           ELSE 0)
        + (IF Contains(conditions, "snow") \/ Contains(conditions, "blizzard")
           THEN 25 * vehicle.visibility_sensitivity
           ELSE IF Contains(conditions, "rain") \/ Contains(conditions, "storm")
           THEN 15 * vehicle.visibility_sensitivity
           ELSE IF Contains(conditions, "fog")
           THEN 20 * vehicle.visibility_sensitivity
           ELSE 0)
        + 2000 * Len(severe)

RECURSIVE DocumentedPenalties(_, _)
DocumentedPenalties(wps, vehicle) ==
    IF wps = <<>> THEN 0
    ELSE (IF HasWeather(Head(wps)) THEN DocumentedPenalty(Head(wps), vehicle) ELSE 0)
         + DocumentedPenalties(Tail(wps), vehicle)

\* C21: overall_score is the clamp to 0..100 of the truncation of 100 minus
\* the documented penalties of the waypoints that have weather, for every
\* temperature, 0 F and below included
C21_ScoreFormula ==
    out_safety_score # None =>
        out_safety_score[1].overall_score
            = Max2(0, Min2(100, IntOfHundredths(
                  10000 - DocumentedPenalties(in_waypoints_weather,
                                              VehicleProfile(in_vehicle_type)))))

\* C22: the default factor and the default recommendation are returned
\* together or not at all, and the default factor only with risk_level low:
\* the default recommendation is never next to a triggered factor and the
\* default factor never next to another recommendation
C22_DefaultsTogether ==
    out_safety_score # None =>
        LET score == out_safety_score[1]
            default_factor == InSeq(DefaultFactor, score.factors)
            default_recommendation ==
                InSeq(DefaultRecommendation, score.recommendations)
        IN  /\ default_factor <=> default_recommendation
            /\ default_factor => score.risk_level = "low"
            /\ default_factor => score.factors = <<DefaultFactor>>
            /\ default_recommendation
                  => score.recommendations = <<DefaultRecommendation>>

\* The number of upstream alerts of the waypoints of a list
RECURSIVE UpstreamAlertCount(_)
UpstreamAlertCount(wps) ==
    IF wps = <<>> THEN 0
    ELSE Len(Head(wps).alerts) + UpstreamAlertCount(Tail(wps))

\* C23: when fewer than 10 hazard alerts are returned, so that nothing was
\* cut, every upstream alert of every waypoint, with or without weather, has
\* its own hazard alert of type 'alert' with the mapped severity and the
\* waypoint's distance and ETA, and there are no others of that type
C23_OnePerUpstreamAlert ==
    (out_hazard_alerts # None /\ Len(out_hazard_alerts[1]) < 10) =>
        LET res == out_hazard_alerts[1]
            wps == in_waypoints_weather
            of_alerts == {i \in DOMAIN res : res[i].type = "alert"}
        IN  /\ Cardinality(of_alerts) = UpstreamAlertCount(wps)
            /\ \A k \in DOMAIN wps : \A j \in DOMAIN wps[k].alerts :
                  \E i \in of_alerts :
                     /\ res[i].message.words = wps[k].alerts[j].event
                     /\ res[i].severity
                          = (CASE wps[k].alerts[j].severity = "Extreme" -> "extreme"
                               [] wps[k].alerts[j].severity = "Severe" -> "high"
                               [] OTHER -> "medium")
                     /\ res[i].distance_miles = wps[k].waypoint.distance_from_start
                     /\ res[i].eta_minutes = wps[k].waypoint.eta_minutes

\* The fetch tasks that have completed
CompletedTasks == {i \in DOMAIN task_pc : task_pc[i] = "done"}

\* C24: an enrichment function or the database call has started only if the
\* fetch task of every waypoint has completed and left its result, and
\* whenever a task has completed every waypoint has a task that was started
C24_FanOutBarrier ==
    /\ (calls.enrich # <<>> \/ calls.save > 0 \/ response # None) =>
          /\ waypoints # <<>>
          /\ CompletedTasks = DOMAIN waypoints
          /\ \A i \in DOMAIN waypoints : results[i] # None
    /\ CompletedTasks # {} =>
          /\ DOMAIN task_pc = DOMAIN waypoints
          /\ \A i \in DOMAIN waypoints :
                task_pc[i] \in {"weather", "alerts", "reverse", "done"}

\* C24 witness: of three tasks the last has completed while the first still
\* awaits its weather, and nothing of the enrichment has started
C24_Witness ==
    /\ pc = "fetch"
    /\ Len(waypoints) = 3
    /\ task_pc[3] = "done"
    /\ task_pc[1] = "weather"
    /\ calls.enrich = <<>>
    /\ calls.save = 0

\* The hazard count as documented: the waypoints whose weather mentions
\* rain, storm, snow or fog, plus the alerts of every waypoint
DocumentedHazardCount(wps) ==
    Cardinality({k \in DOMAIN wps :
                   /\ wps[k].weather # None
                   /\ \E bad \in {"rain", "storm", "snow", "fog"} :
                         Contains(wps[k].weather[1].conditions, bad)})
    + UpstreamAlertCount(wps)

\* C25: the recommendation of calculate_optimal_departure is the optimal
\* one iff there is no hazard and the score is at least 80, the acceptable
\* one iff that fails while there are at most 2 hazards and the score is at
\* least 60, and the later one otherwise; hazard_count and safety_score are
\* the values decided on
C25_DepartureThresholds ==
    out_optimal_departure # None =>
        LET window == out_optimal_departure[1]
            hazards == DocumentedHazardCount(in_waypoints_weather)
            score == calculate_safety_score(in_waypoints_weather, "car").overall_score
            optimal == hazards = 0 /\ score >= 80
            acceptable == ~optimal /\ hazards <= 2 /\ score >= 60
        IN  /\ window.hazard_count = hazards
            /\ window.safety_score = score
            /\ window.recommendation = OptimalRecommendation <=> optimal
            /\ window.recommendation = AcceptableRecommendation <=> acceptable
            /\ window.recommendation = LaterRecommendation
                  <=> (~optimal /\ ~acceptable)

\* C25 witness: no hazard is counted and yet the score of 70 allows no more
\* than the acceptable recommendation
C25_Witness ==
    /\ out_optimal_departure # None
    /\ out_optimal_departure[1].hazard_count = 0
    /\ out_optimal_departure[1].safety_score = 70
    /\ out_optimal_departure[1].recommendation = AcceptableRecommendation

\* The cumulative distances, in metres, at the end of the provider steps
\* that are more than 0.1 mile long or are a manoeuvre
RECURSIVE SignificantEnds(_, _)
SignificantEnds(provider_steps, cumulative_meters) ==
    IF provider_steps = <<>> THEN <<>>
    ELSE LET step == Head(provider_steps)
             cumulative == cumulative_meters + step.distance
             rest == SignificantEnds(Tail(provider_steps), cumulative)
         IN  IF step.distance * 1000 > MetersPerMileE2
                \/ step.maneuver_type \notin {"straight", "new name"}
             THEN <<cumulative>> \o rest
             ELSE rest

\* The waypoints nearest to a cumulative distance, the Start waypoint at
\* distance 0 included
NearestWaypoints(wps, cumulative_meters) ==
    LET Gap(k) == Abs(wps[k].waypoint.distance_from_start * MetersPerMileE2
                      - cumulative_meters * 100)
    IN  {k \in DOMAIN wps : \A j \in DOMAIN wps : Gap(k) <= Gap(j)}

\* C26: the steps returned are those of the provider that are longer than
\* 0.1 mile or are a manoeuvre, at most 50 of them, and each carries the
\* alert presence, the weather text, the temperature and, where there is
\* weather, the road condition of a waypoint nearest to its cumulative
\* distance
C26_StepsCarryNearestWaypoint ==
    (out_turn_by_turn # None /\ in_directions[1].status_code = 200
       /\ in_directions[1].routes # <<>>) =>
        LET res == out_turn_by_turn[1]
            wps == in_waypoints_weather
            ends == SignificantEnds(LegSteps(in_directions[1].routes[1].legs), 0)
        IN  /\ Len(res) = Min2(50, Len(ends))
            /\ \A i \in DOMAIN res :
                  \E k \in NearestWaypoints(wps, ends[i]) :
                     /\ res[i].has_alert = (wps[k].alerts # <<>>)
                     /\ res[i].weather_at_step
                          = (IF HasWeather(wps[k]) THEN WeatherOf(wps[k]).conditions
                             ELSE None)
                     /\ res[i].temperature
                          = (IF HasWeather(wps[k]) THEN WeatherOf(wps[k]).temperature
                             ELSE NoneInt)
                     /\ HasWeather(wps[k]) =>
                          res[i].road_condition
                            = <<derive_road_condition(wps[k].weather, wps[k].alerts)>>

\* The sample points, in order, for which the place provider found a stop
FoundSamples ==
    LET todo == RestSampleIndices(in_coords)
    IN  SelectSeq([j \in DOMAIN todo |-> IF in_rest_replies[j] = "found" THEN todo[j]
                                         ELSE -1],
                  LAMBDA i : i >= 0)

\* The waypoints with weather nearest to the approximate distance of sample
\* point i, a distance compared as a multiple of the number of route points
NearestWithWeather(wps, i) ==
    LET Gap(k) == Abs(wps[k].waypoint.distance_from_start * Len(in_coords)
                      - i * LastDistance(wps))
        bearing == {k \in DOMAIN wps : HasWeather(wps[k])}
    IN  {k \in bearing : \A j \in bearing : Gap(k) <= Gap(j)}

\* C27: at most 5 rest stops are returned, and each carries the weather
\* text and the temperature of a waypoint with weather that is nearest to
\* the stop's approximate distance, whenever some waypoint has weather
C27_RestStopNearestWeather ==
    out_rest_stops # None =>
        LET res == out_rest_stops[1]
            wps == in_waypoints_weather
        IN  /\ Len(res) <= 5
            /\ Len(res) = Min2(5, Len(FoundSamples))
            /\ \A n \in DOMAIN res :
                  NearestWithWeather(wps, FoundSamples[n]) # {} =>
                     \E k \in NearestWithWeather(wps, FoundSamples[n]) :
                        /\ res[n].weather_at_arrival = WeatherOf(wps[k]).conditions
                        /\ res[n].temperature_at_arrival = WeatherOf(wps[k]).temperature

\* C28: for every non-empty list of waypoints, worst_road_condition is the
\* condition of some waypoint whose severity is the largest severity of
\* the route, also when every waypoint is without weather
C28_WorstIsConditionOfWorstWaypoint ==
    (out_route_conditions # None /\ in_waypoints_weather # <<>>) =>
        LET wps == in_waypoints_weather
            worst == SetMax({ConditionAt(wps, k).severity : k \in DOMAIN wps})
        IN  \E k \in DOMAIN wps :
               /\ ConditionAt(wps, k).severity = worst
               /\ ConditionAt(wps, k).condition
                    = out_route_conditions[1].worst_road_condition

\* C29: the total_distance_miles of a response is the route provider's
\* distance in metres divided once by the metres of a mile, rounded to one
\* decimal (kept in tenths of a mile)
C29_DistanceConvertedOnce ==
    response # None =>
        response[1].total_distance_miles
          = RoundDiv(route_data[1].distance.meters * 1000, MetersPerMileE2)

\* C30: when stops of the request resolved, the steps of the response come
\* from a request to the route provider with the same coordinate list
\* (origin, the via stops in order, destination) as the request that
\* produced route_geometry
C30_TurnByTurnSameViaStops ==
    (response # None /\ stop_coords # <<>>) =>
        /\ Len(calls.route) = 1
        /\ calls.directions = calls.route
====
